---- MODULE Spec2Model ----
(***************************************************************************)
(* Model of the media organizer (media-organizer/) and of the grouping     *)
(* layer of the Real-Debrid processor (Real-debrid-Strm/).                 *)
(*                                                                         *)
(*   SpecClassify  classify_folder, SmartCache and AIClassifier            *)
(*   SpecCorr      the manual-correction lifecycle of SmartCache           *)
(*   Spec          the orchestrator of monitor.py: triggers, the run lock  *)
(*                 and whole organize runs over a small source tree        *)
(*   SpecRun       sequential organize runs over a changing source tree    *)
(*   SpecGroup     _create_torrent_groups / _create_torrent_groups_with_skip*)
(*   SpecFile      copy_file_if_changed and move_file_if_not_exists        *)
(*   SpecWatch     the create watcher and its debounce window              *)
(*   SpecApply     metadata corrections of correction_processor.py         *)
(*   SpecMaterialize  organize runs with a spam folder and a movie folder  *)
(*                 whose TMDB lookup answers in some runs only             *)
(*   SpecRollback  apply_metadata_correction itself with failing renames   *)
(*   SpecLive      the triggers under fair scheduling of the threads       *)
(*   SpecCleanup   cleanup_processed_files.py beside organize runs         *)
(*   SpecScan      the source scan of organize_media over named folders    *)
(*   SpecRename    apply_metadata_correction over trees with subfolders    *)
(*   SpecPipeline  organize runs, classification and corrections together  *)
(*   SpecRetention cleanup_old_cache beside classification and correction  *)
(*   SpecFilter    the grouping over files of every kind and boundary size *)
(*   SpecSanitize  grouping and _create_grouped_strm_files                 *)
(*   SpecReprocess organize runs over a reference file modified in place   *)
(***************************************************************************)
EXTENDS Integers, Sequences, FiniteSets, TLC

VARIABLES
    \* ---- SmartCache / AIClassifier (modules/smart_cache.py, ai_classifier.py)
    cache_data,          \* smart_cache.cache_data: processed_files, ai_classifications
    manual_corrections,  \* smart_cache.manual_corrections: corrections, learning_patterns
    learning_data,       \* ai_classifier.learning_data: confidence_scores, corrections, jav_patterns
    openai_client,       \* ai_classifier.openai_client is set (a credential is configured)
    now,                 \* the wall clock (datetime.now() / time.time()), in model ticks
    last,                \* history: the last operation and what it did
    \* ---- the file system (modules/utils.py)
    files,               \* path -> [content, mtime] for every regular file that exists
    fop,                 \* history: the last call of a file utility and what it did
    \* ---- the grouping layer (Real-debrid-Strm/app/real_debrid_processor.py)
    torrents,            \* the torrent collection returned by the API
    unrestricted_data,   \* the link-record collection returned by the API
    torrent_groups,      \* the groups built by the last grouping call
    group_call,          \* history: the last grouping call and its arguments
    \* ---- the orchestrator (monitor.py)
    ORGANIZATION_LOCK,   \* TRUE while the threading.Lock is held
    pc,                  \* position of every thread that can call organize_media
    last_triggered_time, \* NewFolderHandler.last_triggered_time
    LAST_ORGANIZED_TIME, \* the global written at the end of a completed run
    found_busy,          \* history: the thread's last acquire found the lock held
    \* ---- the trees an organize run works on (modules/processors.py, utils.py)
    unorganized_exists,  \* UNORGANIZED_DIR exists
    src_dirs,            \* the directories directly under UNORGANIZED_DIR
    track_file,          \* the keys in TRACK_FILE, the ledger on disk
    copies,              \* history: tracking key -> number of copies made (2 = two or more)
    run_log,             \* history: what the last organize run did
    cleanup              \* cleanup_processed_files.py: position, its tracking_data, history

classVars == <<cache_data, manual_corrections, learning_data, openai_client, now, last>>
fileVars == <<files, fop>>
groupVars == <<torrents, unrestricted_data, torrent_groups, group_call>>
orchVars == <<ORGANIZATION_LOCK, pc, last_triggered_time, LAST_ORGANIZED_TIME, found_busy>>
runVars == <<unorganized_exists, src_dirs, track_file, copies, run_log, cleanup>>

vars == <<classVars, fileVars, groupVars, orchVars, runVars>>

----------------------------------------------------------------------------
(* Bounds *)

MaxTime == 1        \* the clock runs 0..MaxTime
MaxPatterns == 1    \* cap on the length of learning_patterns
MaxCached == 2      \* cap on the number of names held in processed_files

----------------------------------------------------------------------------
(* Values *)

None == "<None>"                      \* Python's None where a string is expected
Truthy(v) == v \notin {None, ""}      \* Python truthiness of an Optional[str]

Labels == {"JAV", "Shows", "Movie", "SKIP"}

\* Folder names.  The detector tables below were obtained by running the
\* detectors of the source on exactly these strings.
Names == {"setup.exe", "SONE-564.exe", "Friends.S01E01.exe", "SONE-564.S01E02.exe",
          "SONE-564", "SONE-564.S01E02", "Friends.S01.UHD", "Heat", "XYZQ-1234",
          "S01E01"}

\* classifier.is_spam_or_ad: the pattern r'.*\.exe$' matches
is_spam_or_ad(n) ==
    n \in {"setup.exe", "SONE-564.exe", "Friends.S01E01.exe", "SONE-564.S01E02.exe"}

\* jav_detector.is_jav_prefix: r'([A-Z0-9]{2,6})[-_](\d{3,5})' with prefix SONE in JAV_PREFIXES
is_jav_prefix(n) ==
    n \in {"SONE-564.exe", "SONE-564.S01E02.exe", "SONE-564", "SONE-564.S01E02"}

\* classifier.is_tv_show: r'S\d+E\d+' or r'S\d{1,2}\.'
is_tv_show(n) ==
    n \in {"Friends.S01E01.exe", "SONE-564.S01E02.exe", "SONE-564.S01E02",
           "Friends.S01.UHD", "S01E01"}

\* the suspicious_patterns of AIClassifier.should_use_ai
suspicious(n) ==
    n \in {"SONE-564.exe", "SONE-564.S01E02.exe", "SONE-564", "SONE-564.S01E02", "XYZQ-1234"}

\* SmartCache._extract_jav_pattern: the code "PREFIX-digits", or None
extract_jav_pattern(n) ==
    IF n \in {"SONE-564.exe", "SONE-564.S01E02.exe", "SONE-564", "SONE-564.S01E02"}
    THEN "SONE-564"
    ELSE IF n = "XYZQ-1234" THEN "XYZQ-1234" ELSE None

\* features["jav_code"].split('-')[0]
CodePrefix(code) == IF code = "SONE-564" THEN "SONE" ELSE IF code = "XYZQ-1234" THEN "XYZQ" ELSE code

\* str.startswith on the codes above
StartsWith(code, prefix) == CodePrefix(code) = prefix

has_numbers(n) == n \notin {"setup.exe", "Heat"}     \* any(c.isdigit() for c in n)
has_letters(n) == TRUE                                \* any(c.isalpha() for c in n)

\* Confidence values are in tenths: 7 is 0.7
Confidences == {5, 7}
confidence_threshold == 7      \* AIClassifier.get_confidence_threshold, default '0.7'
NoClientConfidence == 5        \* classify_with_ai without a client returns (original, 0.5)
ErrorConfidence == 3           \* classify_with_ai after an exception returns (original, 0.3)

\* What the AI collaborator answers.  The label is whatever the response
\* carries: "" stands for an empty or null classification, "Other" for any
\* string outside the four categories.
AILabels == {"JAV", "Other", ""}
AIError == [kind |-> "error", label |-> "", confidence |-> 0]

\* A response that is not the expected JSON.  Its label is the keyword the
\* fallback parsers find in the text: "JAV" when the first answer contains JAV
\* or JAPANESE, "SHOW" when it does not and the second answer contains SHOW,
\* SERIES or EPISODE, "" when neither does.
Keywords == {"JAV", "SHOW", ""}
AIUnparseable == [kind : {"unparseable"}, label : Keywords, confidence : {0}]

AIResponses == ({AIError} \cup [kind : {"ok"}, label : AILabels, confidence : Confidences])
                   \cup AIUnparseable

FallbackJavConfidence == 8     \* _parse_jav_response: 0.8 if is_jav
FallbackShowsConfidence == 7   \* _parse_media_response: 0.7 on SHOW, SERIES or EPISODE
FallbackMovieConfidence == 5   \* _parse_media_response: 0.5 otherwise

Put(f, k, v) == [x \in (DOMAIN f) \cup {k} |-> IF x = k THEN v ELSE f[x]]
Drop(f, S) == [x \in (DOMAIN f) \ S |-> f[x]]
EmptyMap == [x \in {} |-> 0]

\* the history record of the last operation, before any operation
NoLast == [op |-> "init", name |-> None, label |-> None, had_entry |-> FALSE,
           had_truthy |-> FALSE, stages |-> <<>>, ai_consulted |-> FALSE,
           ai_called |-> FALSE, ai_from_cache |-> FALSE,
           cache_writes |-> <<>>, ai_writes |-> <<>>, prior |-> None,
           resp_kind |-> None, exit |-> None, tmdb_id |-> None, vanished |-> FALSE,
           fault |-> None, removed |-> {}]

----------------------------------------------------------------------------
(* SmartCache *)

get_cached_classification(cd, n) ==
    IF n \in DOMAIN cd.processed_files THEN cd.processed_files[n].classification ELSE None

get_cached_ai_classification(cd, n) ==
    IF n \in DOMAIN cd.ai_classifications THEN cd.ai_classifications[n] ELSE None

\* a variant that starts processed_files afresh
cache_classification_Afresh(cd, n, classification, t) ==
    [cd EXCEPT !.processed_files =
        Put(EmptyMap, n, [classification |-> classification, timestamp |-> t,
                          file_path |-> None, dest_path |-> None])]

\* a variant that records a destination
cache_classification_WithDest(cd, n, classification, t) ==
    [cd EXCEPT !.processed_files =
        Put(@, n, [classification |-> classification, timestamp |-> t,
                   file_path |-> None, dest_path |-> "Movies/Heat"])]

\* classify_folder never passes file_path or dest_path, so file_hashes stays empty
cache_classification(cd, n, classification, t) ==
    [cd EXCEPT !.processed_files =
        Put(@, n, [classification |-> classification, timestamp |-> t,
                   file_path |-> None, dest_path |-> None])]

cache_ai_classification(cd, n, classification, confidence, t) ==
    [cd EXCEPT !.ai_classifications =
        Put(@, n, [classification |-> classification, confidence |-> confidence,
                   timestamp |-> t])]

_extract_learning_pattern(n, original, correct) ==
    [folder_name |-> n, original_classification |-> original,
     correct_classification |-> correct,
     jav_code |-> extract_jav_pattern(n),
     has_numbers |-> has_numbers(n), has_letters |-> has_letters(n)]

_pattern_matches(n, pattern) ==
    IF /\ pattern.jav_code # None
       /\ extract_jav_pattern(n) # None
       /\ StartsWith(extract_jav_pattern(n), CodePrefix(pattern.jav_code))
    THEN TRUE
    ELSE IF pattern.has_numbers # has_numbers(n) THEN FALSE
    ELSE IF pattern.has_letters # has_letters(n) THEN FALSE
    ELSE TRUE

_matches_manual_correction_pattern(mc, n) ==
    \E i \in 1..Len(mc.learning_patterns) : _pattern_matches(n, mc.learning_patterns[i])

\* AIClassifier.should_use_ai
ai_should_use_ai(client, n) == client /\ suspicious(n)

\* SmartCache.should_use_ai with file_path = None
should_use_ai(cd, mc, client, n) ==
    IF Truthy(get_cached_classification(cd, n)) THEN FALSE
    ELSE IF _matches_manual_correction_pattern(mc, n) THEN TRUE
    ELSE ai_should_use_ai(client, n)

\* AIClassifier.learn_from_correction
ai_learn_from_correction(ld, n, correct, original) ==
    IF original # correct
    THEN [ld EXCEPT !.corrections = Put(@, n, [original |-> original, correct |-> correct]),
                    !.jav_patterns =
                        IF correct = "JAV" /\ extract_jav_pattern(n) # None
                        THEN @ \cup {extract_jav_pattern(n)} ELSE @]
    ELSE ld

add_manual_correction(mc, n, original, correct, tmdb_id, t) ==
    [corrections |-> Put(mc.corrections, n,
                         [original |-> original, correct |-> correct, timestamp |-> t,
                          applied |-> FALSE, correct_tmdb_id |-> tmdb_id]),
     learning_patterns |-> Append(mc.learning_patterns,
                                  _extract_learning_pattern(n, original, correct))]

get_unapplied_corrections(mc) ==
    {[folder_name |-> n, applied |-> mc.corrections[n].applied,
      correct |-> mc.corrections[n].correct] :
        n \in {m \in DOMAIN mc.corrections : ~mc.corrections[m].applied}}

mark_correction_applied_NoGuard(mc, n) ==
    [mc EXCEPT !.corrections =
        Put(@, n, [original |-> "Unknown", correct |-> "Unknown", timestamp |-> 0,
                   applied |-> TRUE, correct_tmdb_id |-> None])]

mark_correction_applied(mc, n) ==
    IF n \in DOMAIN mc.corrections
    THEN [mc EXCEPT !.corrections[n].applied = TRUE]
    ELSE mc

\* a variant that also drops the entries written at the cutoff
cleanup_old_cache_AtCutoff(cd, t, days) ==
    LET cutoff == t - days
        old_files == {n \in DOMAIN cd.processed_files : cd.processed_files[n].timestamp <= cutoff}
        old_ai == {n \in DOMAIN cd.ai_classifications : cd.ai_classifications[n].timestamp <= cutoff}
    IN [processed_files |-> Drop(cd.processed_files, old_files),
        ai_classifications |-> Drop(cd.ai_classifications, old_ai)]

\* cutoff = now - days; an entry goes when its timestamp is before the cutoff
cleanup_old_cache(cd, t, days) ==
    LET cutoff == t - days
        old_files == {n \in DOMAIN cd.processed_files : cd.processed_files[n].timestamp < cutoff}
        old_ai == {n \in DOMAIN cd.ai_classifications : cd.ai_classifications[n].timestamp < cutoff}
    IN [processed_files |-> Drop(cd.processed_files, old_files),
        ai_classifications |-> Drop(cd.ai_classifications, old_ai)]

----------------------------------------------------------------------------
(* AIClassifier.classify_with_ai.  resp is the collaborator's answer to the
   two requests (_check_if_jav, then _classify_shows_or_movie) taken together:
   an error raised by either, or the label and the confidence returned. *)

\* _parse_jav_response and _parse_media_response on the two answers: the JSON
\* fields when the answer parses, the keyword fallback when it does not
parse_response(resp) ==
    IF resp.kind = "ok"
    THEN [classification |-> resp.label, confidence |-> resp.confidence]
    ELSE IF resp.label = "JAV"
    THEN [classification |-> "JAV", confidence |-> FallbackJavConfidence]
    ELSE IF resp.label = "SHOW"
    THEN [classification |-> "Shows", confidence |-> FallbackShowsConfidence]
    ELSE [classification |-> "Movie", confidence |-> FallbackMovieConfidence]

\* a variant without the credential check of line 66
classify_with_ai_NoCredentialCheck(ld, client, n, original, resp) ==
    IF n \in DOMAIN ld.confidence_scores
    THEN [classification |-> ld.confidence_scores[n].classification,
          confidence |-> ld.confidence_scores[n].confidence,
          learning_data |-> ld, called |-> FALSE]
    ELSE IF resp.kind = "error"
    THEN [classification |-> original, confidence |-> ErrorConfidence,
          learning_data |-> ld, called |-> TRUE]
    ELSE [classification |-> parse_response(resp).classification,
          confidence |-> parse_response(resp).confidence,
          learning_data |-> [ld EXCEPT !.confidence_scores = Put(@, n, parse_response(resp))],
          called |-> TRUE]

classify_with_ai(ld, client, n, original, resp) ==
    IF ~client
    THEN [classification |-> original, confidence |-> NoClientConfidence,
          learning_data |-> ld, called |-> FALSE]
    ELSE IF n \in DOMAIN ld.confidence_scores
    THEN [classification |-> ld.confidence_scores[n].classification,
          confidence |-> ld.confidence_scores[n].confidence,
          learning_data |-> ld, called |-> FALSE]
    ELSE IF resp.kind = "error"
    THEN [classification |-> original, confidence |-> ErrorConfidence,
          learning_data |-> ld, called |-> TRUE]
    ELSE [classification |-> parse_response(resp).classification,
          confidence |-> parse_response(resp).confidence,
          learning_data |-> [ld EXCEPT !.confidence_scores = Put(@, n, parse_response(resp))],
          called |-> TRUE]

----------------------------------------------------------------------------
(* classifier.classify_folder *)

traditional_stage_TvFirst(n) ==
    IF is_spam_or_ad(n) THEN "SKIP"
    ELSE IF is_tv_show(n) THEN "Shows"
    ELSE IF is_jav_prefix(n) THEN "JAV"
    ELSE "Movie"

\* Priority 1..4: the first detector that matches decides
traditional_stage(n) ==
    IF is_spam_or_ad(n) THEN "SKIP"
    ELSE IF is_jav_prefix(n) THEN "JAV"
    ELSE IF is_tv_show(n) THEN "Shows"
    ELSE "Movie"

\* the detectors a call runs before it reaches the stage that decided
StagesOf(trad) ==
    IF trad = "SKIP" THEN <<"cache", "spam">>
    ELSE IF trad = "JAV" THEN <<"cache", "spam", "jav">>
    ELSE <<"cache", "spam", "jav", "tv">>

\* a variant that excludes the boundary
ai_overrides_Strict(confidence) == confidence > confidence_threshold

\* if confidence >= confidence_threshold: the AI label replaces the traditional one
ai_overrides(confidence) == confidence >= confidence_threshold

\* The result carries the new stores and a record of what the call did:
\* stages run, whether classify_with_ai was entered (ai_consulted), whether
\* the collaborator was called (ai_called), and the names written by
\* cache_classification (cache_writes) and cache_ai_classification (ai_writes).
classify_folder(cd, ld, mc, client, t, n, resp) ==
    LET cached == get_cached_classification(cd, n) IN
    IF Truthy(cached)
    THEN [label |-> cached, cache_data |-> cd, learning_data |-> ld,
          stages |-> <<"cache">>, ai_consulted |-> FALSE, ai_called |-> FALSE,
          ai_from_cache |-> FALSE, cache_writes |-> <<>>, ai_writes |-> <<>>]
    ELSE
    LET trad == traditional_stage(n) IN
    IF trad # "Movie"
    THEN [label |-> trad, cache_data |-> cache_classification(cd, n, trad, t),
          learning_data |-> ld,
          stages |-> StagesOf(trad), ai_consulted |-> FALSE, ai_called |-> FALSE,
          ai_from_cache |-> FALSE, cache_writes |-> <<n>>, ai_writes |-> <<>>]
    ELSE IF ~should_use_ai(cd, mc, client, n)
    THEN [label |-> trad, cache_data |-> cache_classification(cd, n, trad, t),
          learning_data |-> ld,
          stages |-> Append(StagesOf(trad), "should_use_ai"),
          ai_consulted |-> FALSE, ai_called |-> FALSE,
          ai_from_cache |-> FALSE, cache_writes |-> <<n>>, ai_writes |-> <<>>]
    ELSE
    LET cached_ai == get_cached_ai_classification(cd, n)
        from_cache == n \in DOMAIN cd.ai_classifications
        r == classify_with_ai(ld, client, n, trad, resp)
        ai_classification == IF from_cache THEN cached_ai.classification ELSE r.classification
        confidence == IF from_cache THEN cached_ai.confidence ELSE r.confidence
        cd1 == IF from_cache THEN cd
               ELSE cache_ai_classification(cd, n, ai_classification, confidence, t)
        ld1 == IF from_cache THEN ld ELSE r.learning_data
        final == IF ai_overrides(confidence) THEN ai_classification ELSE trad
    IN [label |-> final, cache_data |-> cache_classification(cd1, n, final, t),
        learning_data |-> ld1,
        stages |-> StagesOf(trad) \o <<"should_use_ai", "ai">>,
        ai_consulted |-> ~from_cache, ai_called |-> (~from_cache /\ r.called),
        ai_from_cache |-> from_cache,
        cache_writes |-> <<n>>, ai_writes |-> IF from_cache THEN <<>> ELSE <<n>>]

----------------------------------------------------------------------------
(* The file system and the file utilities (modules/utils.py) *)

MaxMtime == 1       \* modification times run 1..MaxMtime

Contents == {"x", "y"}                       \* file contents
SrcPath(folder, f) == <<"unorganized", folder, f>>

\* hashlib.sha256 of the content: equal contents, equal digests; None when the
\* file cannot be opened
Sha256(c) == <<"sha256", c>>
NoHash == <<"None", "">>
hash_file(fs, p) == IF p \in DOMAIN fs THEN Sha256(fs[p].content) ELSE NoHash

\* shutil.copy2: content and modification time; raises when src is missing
copy2(fs, src, dst) == Put(fs, dst, fs[src])

\* a variant that never compares the hashes
copy_file_if_changed_NoHash(fs, src, dst) ==
    IF src \in DOMAIN fs
    THEN [fs |-> copy2(fs, src, dst), result |-> TRUE]
    ELSE [fs |-> fs, result |-> FALSE]

copy_file_if_changed(fs, src, dst) ==
    IF dst \notin DOMAIN fs
    THEN IF src \in DOMAIN fs
         THEN [fs |-> copy2(fs, src, dst), result |-> TRUE]
         ELSE [fs |-> fs, result |-> FALSE]              \* copy2 raised
    ELSE IF hash_file(fs, src) # hash_file(fs, dst)
         THEN IF src \in DOMAIN fs
              THEN [fs |-> copy2(fs, src, dst), result |-> TRUE]
              ELSE [fs |-> fs, result |-> FALSE]         \* copy2 raised
         ELSE [fs |-> fs, result |-> FALSE]

\* a variant that keeps the source of a duplicate
move_file_if_not_exists_KeepSrc(fs, src, dst) ==
    IF dst \in DOMAIN fs
    THEN [fs |-> fs, result |-> FALSE]
    ELSE IF src \in DOMAIN fs
         THEN [fs |-> Drop(Put(fs, dst, fs[src]), {src}), result |-> TRUE]
         ELSE [fs |-> fs, result |-> FALSE]

move_file_if_not_exists(fs, src, dst) ==
    IF dst \in DOMAIN fs
    THEN IF src \in DOMAIN fs
         THEN [fs |-> Drop(fs, {src}), result |-> FALSE]  \* os.remove(src)
         ELSE [fs |-> fs, result |-> FALSE]               \* os.remove raised
    ELSE IF src \in DOMAIN fs
         THEN [fs |-> Drop(Put(fs, dst, fs[src]), {src}), result |-> TRUE]
         ELSE [fs |-> fs, result |-> FALSE]               \* shutil.move raised

\* utils.get_file_tracking_key: f"{file_path}:{st_mtime}", the bare path when
\* the file cannot be stat'ed
get_file_tracking_key(fs, p) ==
    IF p \in DOMAIN fs THEN <<p, fs[p].mtime>> ELSE <<p, 0>>
is_file_processed(fs, p, tracking_data) == get_file_tracking_key(fs, p) \in tracking_data
mark_file_processed(fs, p, tracking_data) == tracking_data \cup {get_file_tracking_key(fs, p)}

FilePaths == {SrcPath("Heat", "a.strm"), <<"Movies", "Heat", "Heat.strm">>}
NoFop == [op |-> "init", src |-> <<>>, dst |-> <<>>, result |-> FALSE, before |-> EmptyMap]

\* something outside the program writes a file: new content, later mtime
WriteFile(p, c) ==
    /\ p \in DOMAIN files => files[p].mtime < MaxMtime
    /\ files' = Put(files, p, [content |-> c,
                               mtime |-> IF p \in DOMAIN files THEN files[p].mtime + 1 ELSE 1])
    /\ fop' = [NoFop EXCEPT !.op = "write", !.dst = p, !.before = files]
    /\ UNCHANGED <<classVars, groupVars, orchVars, runVars>>

RemoveFile(p) ==
    /\ p \in DOMAIN files
    /\ files' = Drop(files, {p})
    /\ fop' = [NoFop EXCEPT !.op = "remove", !.dst = p, !.before = files]
    /\ UNCHANGED <<classVars, groupVars, orchVars, runVars>>

CopyFileIfChanged(src, dst) ==
    /\ LET r == copy_file_if_changed(files, src, dst)
       IN /\ files' = r.fs
          /\ fop' = [op |-> "copy", src |-> src, dst |-> dst, result |-> r.result,
                     before |-> files]
    /\ UNCHANGED <<classVars, groupVars, orchVars, runVars>>

MoveFileIfNotExists(src, dst) ==
    /\ LET r == move_file_if_not_exists(files, src, dst)
       IN /\ files' = r.fs
          /\ fop' = [op |-> "move", src |-> src, dst |-> dst, result |-> r.result,
                     before |-> files]
    /\ UNCHANGED <<classVars, groupVars, orchVars, runVars>>

InitFile ==
    /\ files = EmptyMap
    /\ fop = NoFop

----------------------------------------------------------------------------
(* The grouping layer (Real-debrid-Strm/app/real_debrid_processor.py) *)

MaxItems == 2              \* cap on the length of the link-record collection
min_video_size_mb == 300   \* RealDebridProcessor.min_video_size_mb

Links == {"L1", "L2", None}          \* None: the record has no 'link'
TorrentIds == {"T1", "T2", None}     \* None: the record has no 'torrent_id'
SizesMB == {1, 500}

\* link records: the download URL is the link's own, the file is a video
LinkRecords ==
    {[link |-> l, torrent_id |-> t, filename |-> "ep1.mkv", filesize |-> s,
      download |-> IF l = None THEN "D0" ELSE IF l = "L1" THEN "D1" ELSE "D2"] :
        l \in Links, t \in TorrentIds, s \in SizesMB}

\* torrents: two whose names sanitize to the same group name, one without an id
T1 == [id |-> "T1", filename |-> "Show.S01"]
T2 == [id |-> "T2", filename |-> "Show.S01.mkv"]
T0 == [id |-> None, filename |-> "NoId"]
T3 == [id |-> "T3", filename |-> "Show.S01.mkv.mkv"]
TorrentLists == {<<T1>>, <<T1, T2>>, <<T1, T2, T0>>}

SeqsUpTo(S, n) == UNION {[1..k -> S] : k \in 0..n}

\* sanitize_folder_name: one video or subtitle extension, the last suffix of
\* the name, is removed
sanitize_folder_name(name) ==
    IF name = "Show.S01.mkv" THEN "Show.S01"
    ELSE IF name = "Show.S01.mkv.mkv" THEN "Show.S01.mkv"
    ELSE IF name = "ep1.mkv" THEN "ep1"
    ELSE IF name \in {None, ""} THEN "Unknown" ELSE name

\* sanitize_filename: the extension is removed
sanitize_filename(name) ==
    CASE name \in {"ep1.mkv", "ep1.srt"} -> "ep1"
      [] name = "ad.txt" -> "adtxt"
      [] OTHER -> name

\* Path(filename).suffix.lower() is in allowed_video_extensions (.mkv) or in
\* allowed_subtitle_extensions (.srt); .txt is in neither
is_video(filename) == filename = "ep1.mkv"
is_subtitle(filename) == filename = "ep1.srt"

\* a variant that lets a video of any size through
should_process_file_AnySize(filename, filesize) ==
    Truthy(filename) /\ (is_video(filename) \/ is_subtitle(filename))

\* should_process_file(filename, filesize)['process'], sizes in megabytes
should_process_file(filename, filesize) ==
    IF ~Truthy(filename) THEN FALSE
    ELSE IF ~is_video(filename) /\ ~is_subtitle(filename) THEN FALSE
    ELSE IF is_video(filename) /\ min_video_size_mb > 0 /\ filesize < min_video_size_mb
    THEN FALSE
    ELSE TRUE

\* torrent_map: the torrents by id, a later torrent replacing an earlier one
RECURSIVE torrent_map_of(_, _, _)
torrent_map_of(ts, i, m) ==
    IF i > Len(ts) THEN m
    ELSE torrent_map_of(ts, i + 1,
                        IF Truthy(ts[i].id) THEN Put(m, ts[i].id, ts[i]) ELSE m)

GroupIndex(groups, name) ==
    IF \E i \in 1..Len(groups) : groups[i].folder_name = name
    THEN CHOOSE i \in 1..Len(groups) : groups[i].folder_name = name
    ELSE 0

\* the FileEntry appended for a record; 'link' is history, the source's entry
\* keeps only the download URL
FileEntry(item) ==
    [url |-> item.download, filename |-> sanitize_filename(item.filename),
     original_filename |-> item.filename, filesize |-> item.filesize,
     link |-> item.link]

append_entry(groups, tmap, item) ==
    LET torrent_info == tmap[item.torrent_id]
        group_name == sanitize_folder_name(torrent_info.filename)
        g0 == IF GroupIndex(groups, group_name) = 0
              THEN Append(groups, [folder_name |-> group_name, files |-> <<>>,
                                   torrent_info |-> torrent_info])
              ELSE groups
        i == GroupIndex(g0, group_name)
    IN [g0 EXCEPT ![i].files = Append(@, FileEntry(item))]

\* a loop body that does not consult processed_links
group_item_NoDedup(acc, tmap, item, skip_existing, existing_urls) ==
    IF ~Truthy(item.torrent_id) \/ item.torrent_id \notin DOMAIN tmap THEN acc
    ELSE IF skip_existing /\ existing_urls # {} /\ item.link \in existing_urls THEN acc
    ELSE IF Truthy(item.link)
         THEN IF ~should_process_file(item.filename, item.filesize) THEN acc
              ELSE [groups |-> append_entry(acc.groups, tmap, item),
                    processed_links |-> acc.processed_links \cup {item.link}]
         ELSE acc

\* a loop body that opens the group before the content filter
group_item_GroupFirst(acc, tmap, item, skip_existing, existing_urls) ==
    IF ~Truthy(item.torrent_id) \/ item.torrent_id \notin DOMAIN tmap THEN acc
    ELSE IF skip_existing /\ existing_urls # {} /\ item.link \in existing_urls THEN acc
    ELSE IF Truthy(item.link) /\ item.link \notin acc.processed_links
         THEN IF ~should_process_file(item.filename, item.filesize)
              THEN [acc EXCEPT !.groups =
                       IF GroupIndex(@, sanitize_folder_name(tmap[item.torrent_id].filename)) = 0
                       THEN Append(@, [folder_name |->
                                           sanitize_folder_name(tmap[item.torrent_id].filename),
                                       files |-> <<>>, torrent_info |-> tmap[item.torrent_id]])
                       ELSE @]
              ELSE [groups |-> append_entry(acc.groups, tmap, item),
                    processed_links |-> acc.processed_links \cup {item.link}]
         ELSE acc

\* one iteration of `for item in unrestricted_data`
group_item(acc, tmap, item, skip_existing, existing_urls) ==
    IF ~Truthy(item.torrent_id) \/ item.torrent_id \notin DOMAIN tmap THEN acc
    ELSE IF skip_existing /\ existing_urls # {} /\ item.link \in existing_urls THEN acc
    ELSE IF Truthy(item.link) /\ item.link \notin acc.processed_links
         THEN IF ~should_process_file(item.filename, item.filesize) THEN acc
              ELSE [groups |-> append_entry(acc.groups, tmap, item),
                    processed_links |-> acc.processed_links \cup {item.link}]
         ELSE acc

RECURSIVE group_loop(_, _, _, _, _, _)
group_loop(acc, tmap, data, i, skip_existing, existing_urls) ==
    IF i > Len(data) THEN acc
    ELSE group_loop(group_item(acc, tmap, data[i], skip_existing, existing_urls),
                    tmap, data, i + 1, skip_existing, existing_urls)

_create_torrent_groups_with_skip(ts, data, skip_existing, existing_urls) ==
    group_loop([groups |-> <<>>, processed_links |-> {}],
               torrent_map_of(ts, 1, EmptyMap), data, 1, skip_existing, existing_urls).groups

_create_torrent_groups(ts, data) ==
    group_loop([groups |-> <<>>, processed_links |-> {}],
               torrent_map_of(ts, 1, EmptyMap), data, 1, FALSE, {}).groups

NoGroupCall ==
    [fn |-> "init", skip_existing |-> FALSE, existing_urls |-> {},
     materialized |-> FALSE, folders |-> <<>>]

CreateTorrentGroups ==
    /\ torrent_groups' = _create_torrent_groups(torrents, unrestricted_data)
    /\ group_call' = [NoGroupCall EXCEPT !.fn = "_create_torrent_groups"]
    /\ UNCHANGED <<torrents, unrestricted_data>>
    /\ UNCHANGED <<classVars, fileVars, orchVars, runVars>>

CreateTorrentGroupsWithSkip(skip_existing, existing_urls) ==
    /\ torrent_groups' = _create_torrent_groups_with_skip(torrents, unrestricted_data,
                                                          skip_existing, existing_urls)
    /\ group_call' = [fn |-> "_create_torrent_groups_with_skip",
                      skip_existing |-> skip_existing, existing_urls |-> existing_urls,
                      materialized |-> FALSE, folders |-> <<>>]
    /\ UNCHANGED <<torrents, unrestricted_data>>
    /\ UNCHANGED <<classVars, fileVars, orchVars, runVars>>

\* _create_grouped_strm_files: the folder of every group that has files, in
\* the order of the groups; the folder is the group key sanitized again
strm_folders(groups) ==
    [i \in 1..Len(groups) |->
        IF groups[i].files = <<>> THEN None
        ELSE sanitize_folder_name(groups[i].folder_name)]

CreateGroupedStrmFiles ==
    /\ group_call.fn # "init"
    /\ ~group_call.materialized
    /\ group_call' = [group_call EXCEPT !.materialized = TRUE,
                                        !.folders = strm_folders(torrent_groups)]
    /\ UNCHANGED <<torrents, unrestricted_data, torrent_groups>>
    /\ UNCHANGED <<classVars, fileVars, orchVars, runVars>>

InitGroup ==
    /\ torrents = <<>>
    /\ unrestricted_data = <<>>
    /\ torrent_groups = <<>>
    /\ group_call = NoGroupCall

----------------------------------------------------------------------------
(* The processors (modules/processors.py) *)

\* the folders that can appear under UNORGANIZED_DIR; the tables below hold the
\* values the source computes for exactly these names
RunFolders == {"SONE-564", "Heat", "Friends.S01.UHD", "setup.exe", "S01E01"}
StrmFiles == {"a.strm", "b.strm"}          \* neither name carries SxxEyy

\* jav_detector.extract_jav_code
extract_jav_code(n) == IF n = "SONE-564" THEN "SONE-564" ELSE None

\* api_extractors.extract_show_name
extract_show_name(n) ==
    CASE n = "SONE-564" -> "Sone 564"
      [] n = "Heat" -> "Heat"
      [] n = "Friends.S01.UHD" -> "Friends"
      [] n = "setup.exe" -> "Setup Exe"
      [] OTHER -> None                       \* "S01E01": nothing is left of the name

\* api_extractors.extract_movie_name
extract_movie_name(n) ==
    CASE n = "SONE-564" -> "Sone 564"
      [] n = "Heat" -> "Heat"
      [] n = "Friends.S01.UHD" -> "Friends S01"
      [] n = "setup.exe" -> "Setup Exe"
      [] OTHER -> "S01e01"

\* tmdb_api.search_tmdb_tv / search_tmdb_movie: db says whether the TMDB
\* service answers; it knows the show Friends and the movie Heat
NoTmdb == [found |-> FALSE, title |-> "", year |-> "", id |-> ""]    \* the search returns None
search_tmdb_tv(show_name, db) ==
    IF db /\ show_name = "Friends"
    THEN [found |-> TRUE, title |-> "Friends", year |-> "1994", id |-> "1668"] ELSE NoTmdb
search_tmdb_movie(movie_name, db) ==
    IF db /\ movie_name = "Heat"
    THEN [found |-> TRUE, title |-> "Heat", year |-> "1995", id |-> "949"] ELSE NoTmdb

\* process_jav_files 38-57: the code, else the cleaned folder name
jav_folder_name(n) ==
    IF Truthy(extract_jav_code(n)) THEN extract_jav_code(n)
    ELSE CASE n = "Friends.S01.UHD" -> "Friends-S01-UHD"
           [] n = "setup.exe" -> "setup-exe"
           [] OTHER -> n
jav_filename(n) ==
    CASE jav_folder_name(n) = "SONE-564" -> "SONE-564.strm"
      [] jav_folder_name(n) = "Friends-S01-UHD" -> "Friends-S01-UHD.strm"
      [] jav_folder_name(n) = "setup-exe" -> "setup-exe.strm"
      [] jav_folder_name(n) = "Heat" -> "Heat.strm"
      [] OTHER -> "S01E01.strm"
jav_dest(n) == <<"JAV", jav_folder_name(n), jav_filename(n)>>

\* process_tv_shows 86-94
show_folder_name(show_name, tmdb_info) ==
    IF tmdb_info.found THEN "Friends (1994) {tmdb-1668}" ELSE show_name
clean_show_name(show_name, tmdb_info) ==
    IF tmdb_info.found THEN tmdb_info.title ELSE show_name

\* process_tv_shows 101-163: season folder and episode file from the folder
\* name; "Friends.S01.UHD" is season-only, the other names have no season
episode_file(n, clean_name) ==
    IF n = "Friends.S01.UHD" THEN "Season 01/Friends S01E01.strm"
    ELSE CASE clean_name = "Sone 564" -> "Sone 564 E01.strm"
           [] clean_name = "Heat" -> "Heat E01.strm"
           [] OTHER -> "Setup Exe E01.strm"
show_dest(n, show_name, tmdb_info) ==
    <<"Shows", show_folder_name(show_name, tmdb_info),
      episode_file(n, clean_show_name(show_name, tmdb_info))>>

\* process_movies 219-233
movie_folder_name(movie_name, tmdb_info) ==
    IF tmdb_info.found THEN "Heat (1995) {tmdb-949}" ELSE movie_name
clean_movie_filename(movie_name, tmdb_info) ==
    IF tmdb_info.found THEN "Heat (1995).strm"
    ELSE CASE movie_name = "Sone 564" -> "Sone 564.strm"
           [] movie_name = "Heat" -> "Heat.strm"
           [] movie_name = "Friends S01" -> "Friends S01.strm"
           [] movie_name = "Setup Exe" -> "Setup Exe.strm"
           [] OTHER -> "S01e01.strm"
movie_dest(n, db) ==
    LET movie_name == extract_movie_name(n)
        tmdb_info == search_tmdb_movie(movie_name, db)
    IN <<"Movies", movie_folder_name(movie_name, tmdb_info),
         clean_movie_filename(movie_name, tmdb_info)>>

\* os.listdir(src_folder) filtered to .strm, in one of the two orders the file
\* system may return
listdir(fs, n, rev) ==
    LET present(f) == SrcPath(n, f) \in DOMAIN fs
    IN SelectSeq(IF rev THEN <<"b.strm", "a.strm">> ELSE <<"a.strm", "b.strm">>, present)

Bump(c, key) == Put(c, key, IF key \in DOMAIN c THEN 2 ELSE 1)

\* the file step every processor repeats (59-76, 192-209, 238-255)
process_file(st, src, dst) ==
    IF is_file_processed(st.files, src, st.tracking_data)
    THEN [st EXCEPT !.copied_files = @ + 1]
    ELSE LET key == get_file_tracking_key(st.files, src)
             r == copy_file_if_changed(st.files, src, dst)
             st1 == [st EXCEPT !.copied_files = @ + 1,
                               !.calls = @ \cup {[key |-> key,
                                                  tracked |-> key \in st.tracking_data]}]
         IN IF r.result
            THEN [st1 EXCEPT !.files = r.fs,
                             !.tracking_data = mark_file_processed(st.files, src, @),
                             !.marked = @ \cup {key},
                             !.copies = Bump(@, key)]
            ELSE st1

\* for file in os.listdir(src_folder): every .strm of the folder goes to dst
RECURSIVE copy_loop(_, _, _, _, _)
copy_loop(st, n, listing, i, dst) ==
    IF i > Len(listing) THEN st
    ELSE copy_loop(process_file(st, SrcPath(n, listing[i]), dst), n, listing, i + 1, dst)

\* one folder: the listing raises when the folder has vanished since the scan
process_folder(st, n, dst, rev, vanished) ==
    IF n = vanished THEN [st EXCEPT !.raised = TRUE, !.failed = {n}]
    ELSE copy_loop([st EXCEPT !.listed = @ \cup {n}], n, listdir(st.files, n, rev), 1, dst)

RECURSIVE process_jav_files(_, _, _, _, _)
process_jav_files(st, jav_folders, i, rev, vanished) ==
    IF i > Len(jav_folders) \/ st.raised THEN st
    ELSE process_jav_files(
             process_folder(st, jav_folders[i], jav_dest(jav_folders[i]), rev, vanished),
             jav_folders, i + 1, rev, vanished)

RECURSIVE process_show_folders(_, _, _, _, _, _, _)
process_show_folders(st, show_name, tmdb_info, folders, i, rev, vanished) ==
    IF i > Len(folders) \/ st.raised THEN st
    ELSE process_show_folders(
             process_folder(st, folders[i], show_dest(folders[i], show_name, tmdb_info),
                            rev, vanished),
             show_name, tmdb_info, folders, i + 1, rev, vanished)

RECURSIVE process_tv_shows(_, _, _, _, _, _)
process_tv_shows(st, tv_shows, i, rev, vanished, db) ==
    IF i > Len(tv_shows) \/ st.raised THEN st
    ELSE process_tv_shows(
             process_show_folders(st, tv_shows[i].show_name,
                                  search_tmdb_tv(tv_shows[i].show_name, db),
                                  tv_shows[i].folders, 1, rev, vanished),
             tv_shows, i + 1, rev, vanished, db)

RECURSIVE process_movies(_, _, _, _, _, _)
process_movies(st, movie_folders, i, rev, vanished, db) ==
    IF i > Len(movie_folders) \/ st.raised THEN st
    ELSE process_movies(
             process_folder(st, movie_folders[i], movie_dest(movie_folders[i], db),
                            rev, vanished),
             movie_folders, i + 1, rev, vanished, db)

----------------------------------------------------------------------------
(* correction_processor.apply_metadata_correction *)

\* destination folders as the cache stores them (dest_path) and as paths
OldDest == "Movies/Heat"
NewDest == "Movies/Heat (1995) {tmdb-949}"
ShowDest == "Shows/Pals"
NewShowDest == "Shows/Friends (1994) {tmdb-949}"
DirOf(d) ==
    CASE d = OldDest -> <<"Movies", "Heat">>
      [] d = ShowDest -> <<"Shows", "Pals">>
      [] d = NewShowDest -> <<"Shows", "Friends (1994) {tmdb-949}">>
      [] OTHER -> <<"Movies", "Heat (1995) {tmdb-949}">>

\* new_dest_path (59-61): the parent of the old path and the clean folder name
new_dest_path(classification) == IF classification = "Shows" THEN NewShowDest ELSE NewDest

TmdbIds == {"949"}

\* tmdb_api.search_tmdb_movie_by_id: the movie of the id, None when the request fails
search_tmdb_movie_by_id(tmdb_id, db) ==
    IF db THEN [found |-> TRUE, title |-> "Heat", year |-> "1995", id |-> tmdb_id] ELSE NoTmdb

\* search_tmdb_show_by_id, the name the module imports for shows (5, 49)
search_tmdb_show_by_id(tmdb_id, db) ==
    IF db THEN [found |-> TRUE, title |-> "Friends", year |-> "1994", id |-> tmdb_id] ELSE NoTmdb

\* tmdb_info (45-49)
tmdb_info_for(classification, tmdb_id, db) ==
    IF classification = "Movie" THEN search_tmdb_movie_by_id(tmdb_id, db)
    ELSE search_tmdb_show_by_id(tmdb_id, db)

\* the files under a destination folder; the program creates a destination
\* folder together with the file it copies there, so a folder exists exactly
\* when it holds a file
InDir(fs, dir) == {p \in DOMAIN fs : p[1] = dir[1] /\ p[2] = dir[2]}
path_exists(fs, dir) == InDir(fs, dir) # {}

\* a file name with a directory part is a file of a season subfolder;
\* os.listdir(new_dest_path) (67) yields the subfolder, which does not end
\* with .strm, and never the files in it
in_subfolder(filename) ==
    filename \in {"Season 01/Pals S01E01.strm", "Season 01/Friends S01E01.strm"}

\* clean_strm_name (69-77): the title and year for a movie; for a show the
\* title and the S..E.. part of the old name, S01E01 when it has none
clean_strm_name(classification, filename) ==
    IF classification = "Movie" THEN "Heat (1995).strm"
    ELSE "Friends S01E01.strm"

\* the name of a file of the folder after the loop of 67-82
renamed_to(classification, filename) ==
    IF in_subfolder(filename) THEN filename ELSE clean_strm_name(classification, filename)

\* os.rename(old_dest_path, new_dest_path), then every .strm the folder lists
\* renamed to the clean name
rename_all(fs, old, new, classification) ==
    [p \in ((DOMAIN fs) \ InDir(fs, old))
            \cup {<<new[1], new[2], renamed_to(classification, q[3])>> : q \in InDir(fs, old)} |->
        IF p \in DOMAIN fs /\ p \notin InDir(fs, old) THEN fs[p]
        ELSE fs[CHOOSE q \in InDir(fs, old) : renamed_to(classification, q[3]) = p[3]]]

\* which os.rename raises: none, the folder rename (64), the rename of a
\* reference file (81), or that one and then the rename of the rollback (89)
RenameFaults == {None, "rename_folder", "rename_file", "rollback"}

\* os.rename(old, new) of a folder: its files are under the new name
rename_folder(fs, old, new) ==
    [p \in ((DOMAIN fs) \ InDir(fs, old)) \cup {<<new[1], new[2], q[3]>> : q \in InDir(fs, old)} |->
        IF p \in DOMAIN fs /\ p \notin InDir(fs, old) THEN fs[p]
        ELSE fs[<<old[1], old[2], p[3]>>]]

\* os.rename of a folder raises on the fault, and onto another folder that
\* exists: a folder that exists holds a file, and os.rename replaces only an
\* empty one
folder_rename_fails(fs, old, new, fault) ==
    fault = "rename_folder" \/ (old # new /\ path_exists(fs, new))

\* whether a rename fails: the one of the folder, or the one of a reference
\* file, which is made for every .strm of the folder (68-81)
fault_applies(fs, old, new, fault) ==
    \/ folder_rename_fails(fs, old, new, fault)
    \/ fault \in {"rename_file", "rollback"} /\ \E q \in InDir(fs, old) : ~in_subfolder(q[3])

\* the tree when the exception is raised: the folder rename has happened
\* unless it was the one that failed
tree_at_failure(fs, old, new, fault) ==
    IF folder_rename_fails(fs, old, new, fault) THEN fs ELSE rename_folder(fs, old, new)

\* a variant of the except clause without lines 88-89
rollback_Skipped(fs, old, new, fault) == [fs |-> fs, raised |-> FALSE]

\* the except clause, 84-90: the folder is renamed back when new_dest_path
\* exists; an os.rename that fails here raises out of the function
rollback(fs, old, new, fault) ==
    IF ~path_exists(fs, new) THEN [fs |-> fs, raised |-> FALSE]
    ELSE IF fault = "rollback" \/ folder_rename_fails(fs, new, old, None)
    THEN [fs |-> fs, raised |-> TRUE]
    ELSE [fs |-> rename_folder(fs, new, old), raised |-> FALSE]

\* apply_metadata_correction(original_folder_name, correct_tmdb_id)
apply_metadata_correction(cd, mc, fs, n, tmdb_id, t, db, fault) ==
    LET cached_info == cd.processed_files[n]
        saved == add_manual_correction(mc, n, cached_info.classification,
                                       cached_info.classification, tmdb_id, t)
    IN IF n \notin DOMAIN cd.processed_files
       THEN [cache_data |-> cd, manual_corrections |-> mc, fs |-> fs, exit |-> "no_dest"]
       ELSE IF ~Truthy(cached_info.dest_path)
       THEN [cache_data |-> cd, manual_corrections |-> mc, fs |-> fs, exit |-> "no_dest"]
       ELSE IF cached_info.classification \notin {"Movie", "Shows"}
       THEN [cache_data |-> cd, manual_corrections |-> mc, fs |-> fs, exit |-> "not_applicable"]
       ELSE IF ~path_exists(fs, DirOf(cached_info.dest_path))
       THEN [cache_data |-> cd, manual_corrections |-> saved, fs |-> fs, exit |-> "vanished"]
       ELSE IF ~tmdb_info_for(cached_info.classification, tmdb_id, db).found
       THEN [cache_data |-> cd, manual_corrections |-> mc, fs |-> fs, exit |-> "tmdb_failed"]
       ELSE LET old == DirOf(cached_info.dest_path)
                new == DirOf(new_dest_path(cached_info.classification))
            IN IF fault_applies(fs, old, new, fault)
               THEN LET r == rollback(tree_at_failure(fs, old, new, fault), old, new, fault)
                    IN [cache_data |-> cd, manual_corrections |-> mc, fs |-> r.fs,
                        exit |-> IF r.raised THEN "rollback_failed" ELSE "rename_failed"]
               ELSE [cache_data |-> [cd EXCEPT !.processed_files[n].dest_path =
                                                  new_dest_path(cached_info.classification)],
                     manual_corrections |-> saved,
                     fs |-> rename_all(fs, old, new, cached_info.classification),
                     exit |-> "renamed"]

\* The names correction_processor imports from tmdb_api (line 5) and the
\* functions tmdb_api defines; the import raises ImportError when a name is
\* missing.
correction_processor_imports == {"search_tmdb_movie_by_id", "search_tmdb_show_by_id"}
tmdb_api_names == {"search_tmdb_movie", "search_tmdb_movie_by_id", "search_tmdb_tv",
                   "search_tmdb_tv_by_id"}
import_succeeds == correction_processor_imports \subseteq tmdb_api_names

\* web_interface.add_correction with a TMDB id (62-76, 87-89): the import of
\* correction_processor inside the try block, then the call; an exception
\* ends the request with an error message
add_correction(cd, mc, fs, n, tmdb_id, t, db, fault) ==
    IF import_succeeds
    THEN apply_metadata_correction(cd, mc, fs, n, tmdb_id, t, db, fault)
    ELSE [cache_data |-> cd, manual_corrections |-> mc, fs |-> fs, exit |-> "import_error"]

----------------------------------------------------------------------------
(* organize_media (monitor.py 46-108) *)

MaxClock == 2            \* the service clock runs 0..MaxClock ticks after start
debounce_seconds == 1    \* NewFolderHandler.debounce_seconds, in ticks

\* time.time(): the service starts more than a debounce interval after the epoch
StartTime == debounce_seconds + 1
time_time(t) == StartTime + t

Perms(S) == {s \in [1..Cardinality(S) -> S] : \A i, j \in DOMAIN s : i # j => s[i] # s[j]}

ScanFault == "<scandir>"       \* os.scandir(UNORGANIZED_DIR) raises
Faults == {None, ScanFault}    \* besides these, a folder that vanishes after the scan
RunResponses == {AIError}      \* no folder of RunFolders reaches the AI stage

\* categorized_folders['Shows'][show_name].append(folder_name), the dict in
\* insertion order
add_show(shows, show_name, n) ==
    IF \E i \in 1..Len(shows) : shows[i].show_name = show_name
    THEN LET i == CHOOSE k \in 1..Len(shows) : shows[k].show_name = show_name
         IN [shows EXCEPT ![i].folders = Append(@, n)]
    ELSE Append(shows, [show_name |-> show_name, folders |-> <<n>>])

\* a variant without the SKIP branch: the folder falls through to the movies
put_category_SkipAsMovie(acc, n, category) ==
    IF category = "JAV" THEN [acc EXCEPT !.JAV = Append(@, n)]
    ELSE IF category = "Shows"
         THEN IF Truthy(extract_show_name(n))
              THEN [acc EXCEPT !.Shows = add_show(@, extract_show_name(n), n)]
              ELSE acc
    ELSE [acc EXCEPT !.Movie = Append(@, n)]

\* the branch on the category (72-84): a SKIP folder goes on no list
put_category(acc, n, category) ==
    IF category = "SKIP" THEN acc
    ELSE IF category = "JAV" THEN [acc EXCEPT !.JAV = Append(@, n)]
    ELSE IF category = "Shows"
         THEN IF Truthy(extract_show_name(n))
              THEN [acc EXCEPT !.Shows = add_show(@, extract_show_name(n), n)]
              ELSE acc
    ELSE [acc EXCEPT !.Movie = Append(@, n)]

\* for entry in os.scandir(UNORGANIZED_DIR) (67-84)
RECURSIVE scan(_, _, _, _, _, _, _)
scan(acc, order, i, mc, client, t, resp) ==
    IF i > Len(order) THEN acc
    ELSE LET n == order[i]
             r == classify_folder(acc.cache_data, acc.learning_data, mc, client, t, n, resp)
             a1 == [acc EXCEPT !.cache_data = r.cache_data,
                               !.learning_data = r.learning_data]
             a2 == put_category(a1, n, r.label)
         IN scan(a2, order, i + 1, mc, client, t, resp)

ShowFolders(shows) == UNION {{shows[i].folders[j] : j \in 1..Len(shows[i].folders)} :
                             i \in 1..Len(shows)}
SeqSet(s) == {s[i] : i \in 1..Len(s)}

NoLists == [JAV |-> {}, Shows |-> {}, Movie |-> {}]
NoRun == [exit |-> "none", handed |-> {}, listed |-> {}, failed |-> {}, calls |-> {},
          marked |-> {}, total_copied |-> 0, saved |-> FALSE, lists |-> NoLists]

\* the scan (65-84): every directory under UNORGANIZED_DIR classified and put
\* on the list of its category
categorize(cd, ld, mc, client, t, order, resp) ==
    scan([cache_data |-> cd, learning_data |-> ld, JAV |-> <<>>, Shows |-> <<>>,
          Movie |-> <<>>], order, 1, mc, client, t, resp)

\* the three processors in turn (91-93), on the ledger load_tracking returned;
\* a processor that raises ends the processing
process_all(categorized, fs, ledger, cp, rev, db, vanished) ==
    process_movies(
        process_tv_shows(
            process_jav_files([files |-> fs, tracking_data |-> ledger, copied_files |-> 0,
                               copies |-> cp, calls |-> {}, listed |-> {}, raised |-> FALSE,
                               failed |-> {}, marked |-> {}],
                              categorized.JAV, 1, rev, vanished),
            categorized.Shows, 1, rev, vanished, db),
        categorized.Movie, 1, rev, vanished, db)

\* what the run did, for the history
run_record(categorized, st) ==
    [exit |-> IF st.raised THEN "exception" ELSE "normal",
     handed |-> SeqSet(categorized.JAV) \cup ShowFolders(categorized.Shows)
                  \cup SeqSet(categorized.Movie),
     listed |-> st.listed,
     failed |-> st.failed,
     calls |-> st.calls,
     marked |-> st.marked,
     total_copied |-> st.copied_files,
     saved |-> ~st.raised /\ st.copied_files > 0,
     lists |-> [JAV |-> SeqSet(categorized.JAV), Shows |-> ShowFolders(categorized.Shows),
                Movie |-> SeqSet(categorized.Movie)]]

----------------------------------------------------------------------------
(* The orchestrator (monitor.py): threads, triggers and the run lock *)

Watchers == {"w1", "w2"}                       \* threads spawned by on_created
Threads == {"startup", "periodic"} \cup Watchers

\* a periodic scanner that scans once and ends
Exit_ScanOnce(t) == IF t \in {"startup", "periodic"} THEN "done" ELSE "idle"

\* where a thread is once organize_media has returned
Exit(t) == IF t = "startup" THEN "done" ELSE IF t = "periodic" THEN "sleep" ELSE "idle"

\* a lock taken without looking at it
acquire_Unchecked(lock) == [ok |-> TRUE, lock |-> TRUE]

\* ORGANIZATION_LOCK.acquire(blocking=False): success and the lock afterwards
acquire(lock) == [ok |-> ~lock, lock |-> TRUE]

\* a release that is skipped when the body raised
finally_release_NoFinally(lock, exit) == IF exit = "exception" THEN lock ELSE FALSE

\* finally: ORGANIZATION_LOCK.release(), whatever way the body was left
finally_release(lock, exit) == FALSE

\* a trigger that waits for the lock instead of returning
busy_return_Wait(t) == "acquire"

\* `return` after the failed acquire (52-54)
busy_return(t) == Exit(t)

\* organize_media 52-54: the non-blocking acquire
OrgAcquire(t) ==
    /\ pc[t] = "acquire"
    /\ LET a == acquire(ORGANIZATION_LOCK)
       IN IF a.ok
          THEN /\ ORGANIZATION_LOCK' = a.lock
               /\ pc' = [pc EXCEPT ![t] = "body"]
               /\ found_busy' = [found_busy EXCEPT ![t] = FALSE]
          ELSE /\ ORGANIZATION_LOCK' = ORGANIZATION_LOCK
               /\ pc' = [pc EXCEPT ![t] = busy_return(t)]
               /\ found_busy' = [found_busy EXCEPT ![t] = TRUE]
    /\ UNCHANGED <<last_triggered_time, LAST_ORGANIZED_TIME>>
    /\ UNCHANGED <<classVars, fileVars, groupVars, runVars>>

\* the files of the source tree that lie under folder n
Under(fs, n) == {p \in DOMAIN fs : p[1] = "unorganized" /\ p[2] = n}

\* organize_media 56-105: the try block and the except clause.  fault is what
\* goes wrong during the run: nothing, os.scandir raising, or a folder that is
\* removed after the scan and before its processor lists it.
OrgBody(t, order, rev, db, fault, resp) ==
    /\ pc[t] = "body"
    /\ order \in Perms(src_dirs)
    /\ fault \in Faults \cup src_dirs
    /\ IF ~unorganized_exists \/ fault = ScanFault
       THEN /\ run_log' = [NoRun EXCEPT !.exit = IF ~unorganized_exists THEN "missing"
                                                 ELSE "exception"]
            /\ UNCHANGED <<cache_data, learning_data, files, src_dirs, track_file, copies,
                           LAST_ORGANIZED_TIME>>
       ELSE \E categorized \in {categorize(cache_data, learning_data, manual_corrections,
                                           openai_client, now, order, resp)} :
            \E st \in {process_all(categorized, files, track_file, copies, rev, db, fault)} :
               /\ cache_data' = categorized.cache_data
               /\ learning_data' = categorized.learning_data
               /\ files' = Drop(st.files, UNION {Under(st.files, n) : n \in {fault} \cap src_dirs})
               /\ src_dirs' = src_dirs \ {fault}
               /\ track_file' = IF ~st.raised /\ st.copied_files > 0
                                THEN st.tracking_data ELSE track_file
               /\ copies' = st.copies
               /\ LAST_ORGANIZED_TIME' = IF st.raised THEN LAST_ORGANIZED_TIME
                                         ELSE time_time(now)
               /\ run_log' = run_record(categorized, st)
    /\ pc' = [pc EXCEPT ![t] = "finally"]
    /\ last' = [NoLast EXCEPT !.op = "run"]
    /\ UNCHANGED <<manual_corrections, openai_client, now, fop, unorganized_exists, cleanup>>
    /\ UNCHANGED <<ORGANIZATION_LOCK, last_triggered_time, found_busy>>
    /\ UNCHANGED groupVars

\* organize_media 106-108: the finally clause
OrgFinally(t) ==
    /\ pc[t] = "finally"
    /\ ORGANIZATION_LOCK' = finally_release(ORGANIZATION_LOCK, run_log.exit)
    /\ pc' = [pc EXCEPT ![t] = Exit(t)]
    /\ UNCHANGED <<last_triggered_time, LAST_ORGANIZED_TIME, found_busy>>
    /\ UNCHANGED <<classVars, fileVars, groupVars, runVars>>

\* a variant that accepts an event exactly debounce_seconds after the last one
debounce_elapsed_AtLeast(current_time, last_time) ==
    current_time - last_time >= debounce_seconds

\* on_created 120: current_time - self.last_triggered_time > self.debounce_seconds
debounce_elapsed(current_time, last_time) ==
    current_time - last_time > debounce_seconds

\* a directory appears under UNORGANIZED_DIR and the observer delivers its
\* DirCreatedEvent to NewFolderHandler.on_created (117-126)
OnCreated(n) ==
    /\ unorganized_exists /\ n \notin src_dirs
    /\ src_dirs' = src_dirs \cup {n}
    /\ IF debounce_elapsed(time_time(now), last_triggered_time)
       THEN /\ \E w \in Watchers : pc[w] = "idle"
            /\ LET w == CHOOSE w \in Watchers : pc[w] = "idle"
               IN /\ pc' = [pc EXCEPT ![w] = "acquire"]
                  /\ found_busy' = [found_busy EXCEPT ![w] = FALSE]
            /\ last_triggered_time' = time_time(now)
       ELSE UNCHANGED <<pc, found_busy, last_triggered_time>>
    /\ UNCHANGED <<ORGANIZATION_LOCK, LAST_ORGANIZED_TIME>>
    /\ UNCHANGED <<unorganized_exists, track_file, copies, run_log, cleanup>>
    /\ UNCHANGED <<classVars, fileVars, groupVars>>

\* periodic_scanner 128-134: time.sleep returns and organize_media is called
PeriodicWake ==
    /\ pc["periodic"] = "sleep"
    /\ pc' = [pc EXCEPT !["periodic"] = "acquire"]
    /\ found_busy' = [found_busy EXCEPT !["periodic"] = FALSE]
    /\ UNCHANGED <<ORGANIZATION_LOCK, last_triggered_time, LAST_ORGANIZED_TIME>>
    /\ UNCHANGED <<classVars, fileVars, groupVars, runVars>>

\* the service clock advances
ClockTick ==
    /\ now < MaxClock
    /\ now' = now + 1
    /\ UNCHANGED <<cache_data, manual_corrections, learning_data, openai_client, last>>
    /\ UNCHANGED <<fileVars, groupVars, orchVars, runVars>>

\* UNORGANIZED_DIR is removed with everything under it
RemoveRoot ==
    /\ unorganized_exists
    /\ unorganized_exists' = FALSE
    /\ src_dirs' = {}
    /\ files' = Drop(files, {p \in DOMAIN files : p[1] = "unorganized"})
    /\ UNCHANGED <<fop, track_file, copies, run_log, cleanup>>
    /\ UNCHANGED <<classVars, groupVars, orchVars>>

\* a directory is created under UNORGANIZED_DIR and no event reaches the handler
CreateDir(n) ==
    /\ unorganized_exists /\ n \notin src_dirs
    /\ src_dirs' = src_dirs \cup {n}
    /\ UNCHANGED <<unorganized_exists, track_file, copies, run_log, cleanup>>
    /\ UNCHANGED <<classVars, fileVars, groupVars, orchVars>>

\* a .strm file is written into a source folder: new content, later mtime
WriteStrm(n, f, c) ==
    /\ n \in src_dirs
    /\ SrcPath(n, f) \in DOMAIN files => files[SrcPath(n, f)].mtime < MaxMtime
    /\ files' = Put(files, SrcPath(n, f),
                    [content |-> c,
                     mtime |-> IF SrcPath(n, f) \in DOMAIN files
                               THEN files[SrcPath(n, f)].mtime + 1 ELSE 1])
    /\ UNCHANGED <<fop, runVars>>
    /\ UNCHANGED <<classVars, groupVars, orchVars>>

\* a .strm file of the source tree is modified in place (a refreshed link):
\* new content, later mtime; the file is never removed
MaxStrmMtime == 2        \* a source file is rewritten until its mtime reaches this
RewriteStrm(n, f, c) ==
    /\ SrcPath(n, f) \in DOMAIN files
    /\ files[SrcPath(n, f)].mtime < MaxStrmMtime
    /\ files' = Put(files, SrcPath(n, f),
                    [content |-> c, mtime |-> files[SrcPath(n, f)].mtime + 1])
    /\ UNCHANGED <<fop, runVars>>
    /\ UNCHANGED <<classVars, groupVars, orchVars>>

\* cleanup_processed_files.py, a program of its own started by the operator
\* or by a timer.  It holds the ledger it loaded; removed is the history of
\* its last walk: for every file it deleted, whether the file's key was in the
\* ledger on disk and whether some destination file held its content.
NoCleanup == [pc |-> "idle", tracking_data |-> {}, removed |-> {}]

SourceFiles(fs) == {p \in DOMAIN fs : p[1] = "unorganized"}
DestFiles(fs) == {p \in DOMAIN fs : p[1] \in {"JAV", "Shows", "Movies"}}

\* cleanup_processed_files 33-50: the .strm files whose key is in tracking_data
processed_files_of(fs, tracking_data) ==
    {p \in SourceFiles(fs) : get_file_tracking_key(fs, p) \in tracking_data}

\* cleanup_processed_files 52-61: a folder a file was removed from is removed
\* when nothing is left in it
emptied_folders(fs, removed) ==
    {p[2] : p \in removed} \ {p[2] : p \in SourceFiles(fs) \ removed}

\* cleanup_tracking_data 78-85: the entries whose file still exists
cleanup_tracking_data(fs, tracking_data) == {key \in tracking_data : key[1] \in DOMAIN fs}

\* cleanup_processed_files 23-28: load_tracking; nothing to do on an empty ledger
CleanupLoad ==
    /\ cleanup.pc = "idle"
    /\ cleanup' = [pc |-> IF track_file = {} THEN "idle" ELSE "walk",
                   tracking_data |-> track_file, removed |-> {}]
    /\ UNCHANGED <<unorganized_exists, src_dirs, track_file, copies, run_log>>
    /\ UNCHANGED <<classVars, fileVars, groupVars, orchVars>>

\* cleanup_processed_files 33-66: the walk over UNORGANIZED_DIR
CleanupWalk ==
    /\ cleanup.pc = "walk"
    /\ LET removed == processed_files_of(files, cleanup.tracking_data)
       IN /\ files' = Drop(files, removed)
          /\ src_dirs' = src_dirs \ emptied_folders(files, removed)
          /\ cleanup' = [cleanup EXCEPT
                 !.pc = IF removed = {} THEN "idle" ELSE "save",
                 !.removed = {[path |-> p,
                               tracked |-> get_file_tracking_key(files, p) \in track_file,
                               preserved |-> \E q \in DestFiles(files) :
                                                files[q].content = files[p].content] :
                              p \in removed}]
    /\ UNCHANGED <<fop, unorganized_exists, track_file, copies, run_log>>
    /\ UNCHANGED <<classVars, groupVars, orchVars>>

\* cleanup_processed_files 68-71 and cleanup_tracking_data 73-93: TRACK_FILE is
\* rewritten from the tracking_data loaded at the start
CleanupSave ==
    /\ cleanup.pc = "save"
    /\ track_file' = cleanup_tracking_data(files, cleanup.tracking_data)
    /\ cleanup' = [cleanup EXCEPT !.pc = "idle",
                                  !.tracking_data = cleanup_tracking_data(files, @)]
    /\ UNCHANGED <<unorganized_exists, src_dirs, copies, run_log>>
    /\ UNCHANGED <<classVars, fileVars, groupVars, orchVars>>

\* main 136-158: the startup thread is started; the others do not exist yet
InitOrch ==
    /\ ORGANIZATION_LOCK = FALSE
    /\ pc = [t \in Threads |-> IF t = "startup" THEN "acquire"
                               ELSE IF t = "periodic" THEN "sleep" ELSE "idle"]
    /\ last_triggered_time = 0
    /\ LAST_ORGANIZED_TIME = 0
    /\ found_busy = [t \in Threads |-> FALSE]

InitRun ==
    /\ unorganized_exists = TRUE
    /\ src_dirs = {}
    /\ track_file = {}
    /\ copies = EmptyMap
    /\ run_log = NoRun
    /\ cleanup = NoCleanup

----------------------------------------------------------------------------
(* Operations on the cache and the correction store *)

CorrNames == {"SONE-564", "XYZQ-1234"}    \* names an operator corrects
CorrLabels == {"JAV", "Movie"}
CorrResponses == {AIError, [kind |-> "ok", label |-> "JAV", confidence |-> 7]}
MaxCorrections == 2                       \* cap on the corrections recorded in SpecCorr
Days == {0, 1}                                    \* retention periods, in ticks

\* classify_folder(name) as the run loop, the tests and the tools call it
Classify(n, resp) ==
    /\ \/ n \in DOMAIN cache_data.processed_files
       \/ Cardinality(DOMAIN cache_data.processed_files) < MaxCached
    /\ LET r == classify_folder(cache_data, learning_data, manual_corrections,
                                openai_client, now, n, resp)
       IN /\ cache_data' = r.cache_data
          /\ learning_data' = r.learning_data
          /\ last' = [NoLast EXCEPT !.op = "classify", !.name = n, !.label = r.label,
                        !.had_entry = (n \in DOMAIN cache_data.processed_files),
                        !.had_truthy = Truthy(get_cached_classification(cache_data, n)),
                        !.stages = r.stages, !.ai_consulted = r.ai_consulted,
                        !.ai_called = r.ai_called, !.ai_from_cache = r.ai_from_cache,
                        !.cache_writes = r.cache_writes, !.ai_writes = r.ai_writes,
                        !.prior = get_cached_classification(cache_data, n),
                        !.resp_kind = IF r.ai_called THEN resp.kind ELSE None]
    /\ UNCHANGED <<manual_corrections, openai_client, now>>
    /\ UNCHANGED <<fileVars, groupVars, orchVars, runVars>>

\* classifier.learn_from_correction: the store, then the AI's own learning data
LearnFromCorrection(n, original, correct) ==
    /\ manual_corrections' = add_manual_correction(manual_corrections, n, original, correct, None, now)
    /\ learning_data' = ai_learn_from_correction(
                            ai_learn_from_correction(learning_data, n, correct, original),
                            n, correct, original)
    /\ last' = [NoLast EXCEPT !.op = "add", !.name = n]
    /\ UNCHANGED <<cache_data, openai_client, now>>
    /\ UNCHANGED <<fileVars, groupVars, orchVars, runVars>>

PriorApplied(mc, n) ==
    IF n \notin DOMAIN mc.corrections THEN "absent"
    ELSE IF mc.corrections[n].applied THEN "applied" ELSE "unapplied"

MarkCorrectionApplied(n) ==
    /\ manual_corrections' = mark_correction_applied(manual_corrections, n)
    /\ last' = [NoLast EXCEPT !.op = "mark", !.name = n,
                              !.prior = PriorApplied(manual_corrections, n)]
    /\ UNCHANGED <<cache_data, learning_data, openai_client, now>>
    /\ UNCHANGED <<fileVars, groupVars, orchVars, runVars>>

\* the destination folder recorded for a cached movie or show is gone
DestVanished(cd, fs, n) ==
    /\ n \in DOMAIN cd.processed_files
    /\ Truthy(cd.processed_files[n].dest_path)
    /\ cd.processed_files[n].classification \in {"Movie", "Shows"}
    /\ ~path_exists(fs, DirOf(cd.processed_files[n].dest_path))

\* the destination folder is there, TMDB answers, and a rename will fail
RenameWillFail(cd, fs, n, db, fault) ==
    /\ n \in DOMAIN cd.processed_files
    /\ Truthy(cd.processed_files[n].dest_path)
    /\ cd.processed_files[n].classification \in {"Movie", "Shows"}
    /\ path_exists(fs, DirOf(cd.processed_files[n].dest_path))
    /\ db /\ fault_applies(fs, DirOf(cd.processed_files[n].dest_path),
                            DirOf(new_dest_path(cd.processed_files[n].classification)), fault)

\* a metadata correction is submitted through the web interface for a name;
\* db says whether TMDB answers, fault which rename fails
AddMetadataCorrection(n, tmdb_id, db, fault) ==
    /\ LET r == add_correction(cache_data, manual_corrections, files, n, tmdb_id,
                               now, db, fault)
       IN /\ cache_data' = r.cache_data
          /\ manual_corrections' = r.manual_corrections
          /\ files' = r.fs
          /\ last' = [NoLast EXCEPT !.op = "apply", !.name = n, !.exit = r.exit,
                                    !.tmdb_id = tmdb_id,
                                    !.vanished = DestVanished(cache_data, files, n),
                                    !.fault = IF RenameWillFail(cache_data, files, n, db, fault)
                                              THEN fault ELSE None]
    /\ UNCHANGED <<learning_data, openai_client, now, fop>>
    /\ UNCHANGED <<groupVars, orchVars, runVars>>

\* apply_metadata_correction called for a name, the module once imported
ApplyMetadataCorrection(n, tmdb_id, db, fault) ==
    /\ LET r == apply_metadata_correction(cache_data, manual_corrections, files, n, tmdb_id,
                                          now, db, fault)
       IN /\ cache_data' = r.cache_data
          /\ manual_corrections' = r.manual_corrections
          /\ files' = r.fs
          /\ last' = [NoLast EXCEPT !.op = "apply", !.name = n, !.exit = r.exit,
                                    !.tmdb_id = tmdb_id,
                                    !.vanished = DestVanished(cache_data, files, n),
                                    !.fault = IF RenameWillFail(cache_data, files, n, db, fault)
                                              THEN fault ELSE None,
                                    !.prior = IF n \in DOMAIN cache_data.processed_files
                                              THEN cache_data.processed_files[n].dest_path
                                              ELSE None]
    /\ UNCHANGED <<learning_data, openai_client, now, fop>>
    /\ UNCHANGED <<groupVars, orchVars, runVars>>

CleanupOldCache(days) ==
    /\ cache_data' = cleanup_old_cache(cache_data, now, days)
    /\ last' = [NoLast EXCEPT !.op = "cleanup",
                              !.removed = (DOMAIN cache_data.processed_files
                                              \cup DOMAIN cache_data.ai_classifications)
                                          \ (DOMAIN cache_data'.processed_files
                                              \cup DOMAIN cache_data'.ai_classifications)]
    /\ UNCHANGED <<manual_corrections, learning_data, openai_client, now>>
    /\ UNCHANGED <<fileVars, groupVars, orchVars, runVars>>

\* the process is restarted with or without OPENAI_API_KEY (AIClassifier.__init__);
\* the stores are reloaded from the files written after every mutation
SetCredential ==
    /\ openai_client' = ~openai_client
    /\ last' = [NoLast EXCEPT !.op = "credential"]
    /\ UNCHANGED <<cache_data, manual_corrections, learning_data, now>>
    /\ UNCHANGED <<fileVars, groupVars, orchVars, runVars>>

Tick ==
    /\ now < MaxTime
    /\ now' = now + 1
    /\ last' = [NoLast EXCEPT !.op = "tick"]
    /\ UNCHANGED <<cache_data, manual_corrections, learning_data, openai_client>>
    /\ UNCHANGED <<fileVars, groupVars, orchVars, runVars>>

InitClass ==
    /\ cache_data = [processed_files |-> EmptyMap, ai_classifications |-> EmptyMap]
    /\ manual_corrections = [corrections |-> EmptyMap, learning_patterns |-> <<>>]
    /\ learning_data = [confidence_scores |-> EmptyMap, corrections |-> EmptyMap,
                        jav_patterns |-> {}]
    /\ openai_client \in BOOLEAN
    /\ now = 0
    /\ last = NoLast

\* classification with corrections recorded and the credential changing; the
\* clock stands still, so every timestamp is 0
NextClassify ==
    \/ \E n \in Names, resp \in AIResponses : Classify(n, resp)
    \/ /\ Len(manual_corrections.learning_patterns) < MaxPatterns
       /\ \E n \in CorrNames : LearnFromCorrection(n, "Movie", "JAV")
    \/ SetCredential

InitClassify == InitClass /\ InitFile /\ InitGroup /\ InitOrch /\ InitRun

SpecClassify == InitClassify /\ [][NextClassify]_vars

\* the correction store over time, with classification of the corrected names
NextCorr ==
    \/ \E n \in CorrNames, resp \in CorrResponses : Classify(n, resp)
    \/ /\ Len(manual_corrections.learning_patterns) < MaxCorrections
       /\ \E n \in CorrNames, c \in CorrLabels : LearnFromCorrection(n, "Movie", c)
    \/ \E n \in CorrNames : MarkCorrectionApplied(n)
    \/ \E d \in Days : CleanupOldCache(d)
    \/ Tick

SpecCorr == InitClassify /\ [][NextCorr]_vars

\* what writes and what removes cache entries, AI results, corrections and
\* learning patterns while the clock advances
NextRetention ==
    \/ \E n \in CorrNames, resp \in CorrResponses : Classify(n, resp)
    \/ /\ Len(manual_corrections.learning_patterns) < MaxCorrections
       /\ \E n \in CorrNames : LearnFromCorrection(n, "Movie", "JAV")
    \/ \E d \in Days : CleanupOldCache(d)
    \/ Tick

SpecRetention == InitClassify /\ [][NextRetention]_vars

\* the file utilities on two paths, with files written and removed around them
NextFile ==
    \/ \E p \in FilePaths, c \in Contents : WriteFile(p, c)
    \/ \E p \in FilePaths : RemoveFile(p)
    \/ \E src \in FilePaths, dst \in FilePaths : CopyFileIfChanged(src, dst)
    \/ \E src \in FilePaths, dst \in FilePaths : MoveFileIfNotExists(src, dst)

SpecFile == InitClassify /\ [][NextFile]_vars

\* the grouping functions on every torrent list and link-record collection
InitGroupInputs ==
    /\ InitClass /\ InitFile /\ InitOrch /\ InitRun
    /\ torrents \in TorrentLists
    /\ unrestricted_data \in SeqsUpTo(LinkRecords, MaxItems)
    /\ torrent_groups = <<>>
    /\ group_call = NoGroupCall

NextGroup ==
    \/ CreateTorrentGroups
    \/ \E skip_existing \in BOOLEAN, existing_urls \in SUBSET (Links \ {None}) :
           CreateTorrentGroupsWithSkip(skip_existing, existing_urls)

SpecGroup == InitGroupInputs /\ [][NextGroup]_vars

\* the grouping over records of a video, a subtitle and another file, below
\* and exactly at the minimum size
FilterFiles ==
    {<<"ep1.mkv", min_video_size_mb - 1>>, <<"ep1.mkv", min_video_size_mb>>,
     <<"ep1.srt", min_video_size_mb - 1>>, <<"ad.txt", min_video_size_mb>>}
FilterRecords ==
    {[link |-> l, torrent_id |-> t, filename |-> f[1], filesize |-> f[2],
      download |-> IF l = None THEN "D0" ELSE IF l = "L1" THEN "D1" ELSE "D2"] :
        l \in Links, t \in {"T1", None}, f \in FilterFiles}

InitFilterInputs ==
    /\ InitClass /\ InitFile /\ InitOrch /\ InitRun
    /\ torrents \in {<<T1>>, <<T1, T0>>}
    /\ unrestricted_data \in SeqsUpTo(FilterRecords, MaxItems)
    /\ torrent_groups = <<>>
    /\ group_call = NoGroupCall

SpecFilter == InitFilterInputs /\ [][NextGroup]_vars

\* grouping and materialization over torrents whose names carry no, one and
\* two video extensions
SanitizeRecords ==
    {[link |-> l, torrent_id |-> t, filename |-> "ep1.mkv", filesize |-> 500,
      download |-> IF l = "L1" THEN "D1" ELSE "D2"] :
        l \in {"L1", "L2"}, t \in {"T1", "T2", "T3"}}

InitSanitizeInputs ==
    /\ InitClass /\ InitFile /\ InitOrch /\ InitRun
    /\ torrents \in {<<T1>>, <<T3>>, <<T1, T2>>, <<T1, T3>>, <<T1, T2, T3>>}
    /\ unrestricted_data \in SeqsUpTo(SanitizeRecords, MaxItems)
    /\ torrent_groups = <<>>
    /\ group_call = NoGroupCall

NextSanitize ==
    \/ CreateTorrentGroups
    \/ \E skip_existing \in BOOLEAN, existing_urls \in {{}, {"L2"}} :
           CreateTorrentGroupsWithSkip(skip_existing, existing_urls)
    \/ CreateGroupedStrmFiles

SpecSanitize == InitSanitizeInputs /\ [][NextSanitize]_vars

\* the service: the startup run, the watcher, the periodic scanner, the clock.
\* The source tree holds directories without files, so the listing order and
\* the TMDB answer make no difference and are fixed.
OrchFolders == {"Heat"}

Init == InitClass /\ ~openai_client /\ InitFile /\ InitGroup /\ InitOrch /\ InitRun

Next ==
    \/ \E t \in Threads : OrgAcquire(t)
    \/ \E t \in Threads, order \in Perms(src_dirs), fault \in Faults \cup src_dirs,
          resp \in RunResponses :
           OrgBody(t, order, FALSE, FALSE, fault, resp)
    \/ \E t \in Threads : OrgFinally(t)
    \/ \E n \in OrchFolders : OnCreated(n)
    \/ PeriodicWake
    \/ ClockTick
    \/ RemoveRoot

Spec == Init /\ [][Next]_vars

\* organize runs one after another over a source tree that grows and changes.
\* Only the JAV folder receives files, so the TMDB answer makes no difference.
TreeFolders == {"SONE-564", "Heat"}
StrmFolders == {"SONE-564"}             \* the folders that receive .strm files
Runners == {"periodic"}

NextRun ==
    \/ \E t \in Runners : OrgAcquire(t)
    \/ \E t \in Runners, order \in Perms(src_dirs), rev \in BOOLEAN,
          fault \in Faults \cup src_dirs, resp \in RunResponses :
           OrgBody(t, order, rev, FALSE, fault, resp)
    \/ \E t \in Runners : OrgFinally(t)
    \/ PeriodicWake
    \/ \E n \in TreeFolders : CreateDir(n)
    \/ \E n \in StrmFolders, f \in StrmFiles, c \in Contents : WriteStrm(n, f, c)

InitTree ==
    /\ InitClass /\ ~openai_client /\ InitFile /\ InitGroup /\ InitRun
    /\ ORGANIZATION_LOCK = FALSE
    /\ pc = [t \in Threads |-> IF t = "periodic" THEN "sleep"
                               ELSE IF t = "startup" THEN "done" ELSE "idle"]
    /\ last_triggered_time = 0
    /\ LAST_ORGANIZED_TIME = 0
    /\ found_busy = [t \in Threads |-> FALSE]

SpecRun == InitTree /\ [][NextRun]_vars

\* organize runs over a tree whose one reference file is also modified in
\* place between runs
NextReprocess ==
    \/ \E t \in Runners : OrgAcquire(t)
    \/ \E t \in Runners, order \in Perms(src_dirs), rev \in BOOLEAN,
          fault \in Faults \cup src_dirs, resp \in RunResponses :
           OrgBody(t, order, rev, FALSE, fault, resp)
    \/ \E t \in Runners : OrgFinally(t)
    \/ PeriodicWake
    \/ \E n \in TreeFolders : CreateDir(n)
    \/ \E n \in StrmFolders, c \in Contents : WriteStrm(n, "a.strm", c)
    \/ \E n \in StrmFolders, c \in Contents : RewriteStrm(n, "a.strm", c)

SpecReprocess == InitTree /\ [][NextReprocess]_vars

\* the watcher alone, after the startup run: directories appear one after
\* another while the clock advances, and the threads on_created spawns run
WatchFolders == {"Heat", "SONE-564"}

NextWatch ==
    \/ \E t \in Watchers : OrgAcquire(t)
    \/ \E t \in Watchers, order \in Perms(src_dirs), fault \in Faults, resp \in RunResponses :
           OrgBody(t, order, FALSE, FALSE, fault, resp)
    \/ \E t \in Watchers : OrgFinally(t)
    \/ \E n \in WatchFolders : OnCreated(n)
    \/ ClockTick

SpecWatch == InitTree /\ [][NextWatch]_vars

\* the watcher and the periodic scanner together: directories appear with an
\* event (OnCreated) or without one (CreateDir), os.scandir may fail in a run.
\* The timer keeps firing, every thread that is at a step of organize_media
\* takes it, and os.scandir does not fail in every run for ever.
Scanners == Watchers \cup {"periodic"}

OrgBodyNoFault(t) ==
    \E order \in Perms(src_dirs), resp \in RunResponses :
        OrgBody(t, order, FALSE, FALSE, None, resp)

NextLive ==
    \/ \E t \in Scanners : OrgAcquire(t)
    \/ \E t \in Scanners, order \in Perms(src_dirs), fault \in Faults, resp \in RunResponses :
           OrgBody(t, order, FALSE, FALSE, fault, resp)
    \/ \E t \in Scanners : OrgFinally(t)
    \/ \E n \in WatchFolders : OnCreated(n)
    \/ \E n \in WatchFolders : CreateDir(n)
    \/ PeriodicWake
    \/ ClockTick

FairLive ==
    /\ WF_vars(PeriodicWake)
    /\ \A t \in Scanners :
           WF_vars(OrgAcquire(t)) /\ SF_vars(OrgBodyNoFault(t)) /\ WF_vars(OrgFinally(t))

SpecLive == InitTree /\ [][NextLive]_vars /\ FairLive

\* metadata and category corrections submitted through the web interface for
\* a name whose cache entry, as loaded from the cache file, may carry a
\* destination folder; the folder's file comes and goes
ApplyNames == {"Heat"}
ApplyPaths == {<<"Movies", "Heat", "Heat.strm">>}
CachedEntries == [classification : {"Movie", "JAV"}, timestamp : {0}, file_path : {None},
                  dest_path : {None, OldDest}]

InitApply ==
    /\ cache_data \in [processed_files : [ApplyNames -> CachedEntries],
                        ai_classifications : {EmptyMap}]
    /\ manual_corrections = [corrections |-> EmptyMap, learning_patterns |-> <<>>]
    /\ learning_data = [confidence_scores |-> EmptyMap, corrections |-> EmptyMap,
                        jav_patterns |-> {}]
    /\ openai_client = FALSE
    /\ now = 0
    /\ last = NoLast
    /\ InitFile /\ InitGroup /\ InitOrch /\ InitRun

NextApply ==
    \/ /\ Len(manual_corrections.learning_patterns) < MaxCorrections
       /\ \E n \in ApplyNames, tmdb_id \in TmdbIds, db \in BOOLEAN, fault \in RenameFaults :
              AddMetadataCorrection(n, tmdb_id, db, fault)
    \/ /\ Len(manual_corrections.learning_patterns) < MaxCorrections
       /\ \E n \in ApplyNames, c \in CorrLabels : LearnFromCorrection(n, "Movie", c)
    \/ \E n \in ApplyNames : MarkCorrectionApplied(n)
    \/ \E p \in ApplyPaths, c \in Contents : WriteFile(p, c)
    \/ \E p \in ApplyPaths : RemoveFile(p)

SpecApply == InitApply /\ [][NextApply]_vars

\* apply_metadata_correction itself, over a destination folder whose file is
\* written and removed
NextRollback ==
    \/ /\ Len(manual_corrections.learning_patterns) < MaxCorrections
       /\ \E n \in ApplyNames, tmdb_id \in TmdbIds, db \in BOOLEAN, fault \in RenameFaults :
              ApplyMetadataCorrection(n, tmdb_id, db, fault)
    \/ \E p \in ApplyPaths, c \in Contents : WriteFile(p, c)
    \/ \E p \in ApplyPaths : RemoveFile(p)

SpecRollback == InitApply /\ [][NextRollback]_vars

\* the pipeline, which starts with an empty cache, and metadata corrections
\* for the names it has processed
NextPipeline ==
    \/ \E t \in Runners : OrgAcquire(t)
    \/ \E t \in Runners, order \in Perms(src_dirs), fault \in Faults, resp \in RunResponses :
           OrgBody(t, order, FALSE, FALSE, fault, resp)
    \/ \E t \in Runners : OrgFinally(t)
    \/ PeriodicWake
    \/ \E n \in TreeFolders : CreateDir(n)
    \/ \E n \in StrmFolders, f \in StrmFiles, c \in Contents : WriteStrm(n, f, c)
    \/ \E n \in TreeFolders, resp \in RunResponses : Classify(n, resp)
    \/ \E n \in TreeFolders, tmdb_id \in TmdbIds, db \in BOOLEAN, fault \in RenameFaults :
           ApplyMetadataCorrection(n, tmdb_id, db, fault)

SpecPipeline == InitTree /\ [][NextPipeline]_vars

\* apply_metadata_correction over a movie folder and a show folder with a
\* season subfolder, as process_movies and process_tv_shows lay them out
RenameNames == {"Heat", "Pals"}
RenamePaths == ApplyPaths \cup {<<"Shows", "Pals", "Pals E01.strm">>,
                                <<"Shows", "Pals", "Season 01/Pals S01E01.strm">>}

InitRename ==
    /\ cache_data = [processed_files |->
                        [n \in RenameNames |->
                            [classification |-> IF n = "Heat" THEN "Movie" ELSE "Shows",
                             timestamp |-> 0, file_path |-> None,
                             dest_path |-> IF n = "Heat" THEN OldDest ELSE ShowDest]],
                     ai_classifications |-> EmptyMap]
    /\ manual_corrections = [corrections |-> EmptyMap, learning_patterns |-> <<>>]
    /\ learning_data = [confidence_scores |-> EmptyMap, corrections |-> EmptyMap,
                        jav_patterns |-> {}]
    /\ openai_client = FALSE
    /\ now = 0
    /\ last = NoLast
    /\ InitFile /\ InitGroup /\ InitOrch /\ InitRun

NextRename ==
    \/ /\ Len(manual_corrections.learning_patterns) < MaxCorrections
       /\ \E n \in RenameNames, tmdb_id \in TmdbIds, db \in BOOLEAN, fault \in RenameFaults :
              ApplyMetadataCorrection(n, tmdb_id, db, fault)
    \/ \E p \in RenamePaths, c \in Contents : WriteFile(p, c)
    \/ \E p \in RenamePaths : RemoveFile(p)

SpecRename == InitRename /\ [][NextRename]_vars

\* organize runs over a tree with a spam folder and a movie folder, each
\* receiving one reference file that is written and rewritten between runs;
\* the TMDB service answers in some runs and not in others
MatFolders == {"setup.exe", "Heat"}

NextMaterialize ==
    \/ \E t \in Runners : OrgAcquire(t)
    \/ \E t \in Runners, order \in Perms(src_dirs), db \in BOOLEAN, fault \in Faults,
          resp \in RunResponses :
           OrgBody(t, order, FALSE, db, fault, resp)
    \/ \E t \in Runners : OrgFinally(t)
    \/ PeriodicWake
    \/ \E n \in MatFolders : CreateDir(n)
    \/ \E n \in MatFolders, c \in Contents : WriteStrm(n, "a.strm", c)
    \/ \E n \in MatFolders, c \in Contents : RewriteStrm(n, "a.strm", c)

SpecMaterialize == InitTree /\ [][NextMaterialize]_vars

\* organize runs over folders of every kind the scan tells apart: a code, a
\* film, a season folder, a spam name and a bare episode number
ScanFolders == {"SONE-564", "Heat", "Friends.S01.UHD", "setup.exe", "S01E01"}
MaxScanned == 3          \* cap on the directories under UNORGANIZED_DIR in SpecScan

NextScan ==
    \/ \E t \in Runners : OrgAcquire(t)
    \/ \E t \in Runners, order \in Perms(src_dirs), fault \in Faults, resp \in RunResponses :
           OrgBody(t, order, FALSE, FALSE, fault, resp)
    \/ \E t \in Runners : OrgFinally(t)
    \/ PeriodicWake
    \/ /\ Cardinality(src_dirs) < MaxScanned
       /\ \E n \in ScanFolders : CreateDir(n)

SpecScan == InitTree /\ [][NextScan]_vars

\* organize runs and the cleanup script side by side, over one folder that
\* receives reference files
NextCleanup ==
    \/ \E t \in Runners : OrgAcquire(t)
    \/ \E t \in Runners, order \in Perms(src_dirs), rev \in BOOLEAN, fault \in Faults,
          resp \in RunResponses :
           OrgBody(t, order, rev, FALSE, fault, resp)
    \/ \E t \in Runners : OrgFinally(t)
    \/ PeriodicWake
    \/ \E n \in StrmFolders : CreateDir(n)
    \/ \E n \in StrmFolders, f \in StrmFiles, c \in Contents : WriteStrm(n, f, c)
    \/ CleanupLoad
    \/ CleanupWalk
    \/ CleanupSave

SpecCleanup == InitTree /\ [][NextCleanup]_vars

----------------------------------------------------------------------------
(* Claims about classification and the correction store *)

NoStageMatches(n) == ~is_spam_or_ad(n) /\ ~is_jav_prefix(n) /\ ~is_tv_show(n)

\* C4: a call of classify_folder for a name with no cache entry returns SKIP if
\* the spam filter matches, else JAV if the JAV detector matches, else Shows if
\* the TV detector matches, else Movie unless the AI escalation ran; no stage
\* after the matching one runs, and the AI is not consulted, read from its
\* cache or written for a name matched by the spam, JAV or TV stage.
FirstMatchWins ==
    (last.op = "classify" /\ ~last.had_entry) =>
        LET n == last.name IN
        /\ is_spam_or_ad(n) =>
              (last.label = "SKIP" /\ last.stages = <<"cache", "spam">>)
        /\ (~is_spam_or_ad(n) /\ is_jav_prefix(n)) =>
              (last.label = "JAV" /\ last.stages = <<"cache", "spam", "jav">>)
        /\ (~is_spam_or_ad(n) /\ ~is_jav_prefix(n) /\ is_tv_show(n)) =>
              (last.label = "Shows" /\ last.stages = <<"cache", "spam", "jav", "tv">>)
        /\ ~NoStageMatches(n) =>
              (/\ ~last.ai_consulted /\ ~last.ai_called /\ ~last.ai_from_cache
               /\ last.ai_writes = <<>>)
        /\ (NoStageMatches(n) /\ ~last.ai_consulted /\ ~last.ai_from_cache) =>
              last.label = "Movie"
        /\ last.cache_writes = <<n>>

\* a name that both the JAV and the TV detector match was classified afresh
FirstMatchWitness ==
    /\ last.op = "classify" /\ ~last.had_entry
    /\ last.name = "SONE-564.S01E02" /\ last.label = "JAV"

\* C5: a call of classify_folder for a name that has a cache entry returns the
\* entry's label, and runs no detector, consults no AI and writes no cache.
CacheHitStable ==
    (last.op = "classify" /\ last.had_entry) =>
        /\ last.label = last.prior
        /\ last.stages = <<"cache">>
        /\ ~last.ai_consulted /\ ~last.ai_from_cache
        /\ last.cache_writes = <<>> /\ last.ai_writes = <<>>

\* C11: when classify_with_ai is entered for a name and the collaborator has no
\* credential, raises, or answers with text that is not the expected JSON, the
\* call of classify_folder returns Movie and the name's cache entry holds Movie.
CollaboratorFailureNoOp ==
    (/\ last.op = "classify" /\ last.ai_consulted
     /\ (~openai_client \/ last.resp_kind \in {"error", "unparseable"})) =>
        /\ last.label = "Movie"
        /\ get_cached_classification(cache_data, last.name) = "Movie"

\* the (label, confidence) the AI escalation of the last call yielded: the AI
\* cache entry it read or wrote
Yielded == cache_data.ai_classifications[last.name]

\* C12: when a call of classify_folder enters the AI escalation and it yields
\* (label, confidence), the call returns the AI label if confidence >= 0.7 and
\* Movie if confidence < 0.7, and in both cases writes a cache entry holding
\* the returned label.
AIOverrideRule ==
    (last.op = "classify" /\ (last.ai_consulted \/ last.ai_from_cache)) =>
        /\ Yielded.confidence >= confidence_threshold => last.label = Yielded.classification
        /\ Yielded.confidence < confidence_threshold => last.label = "Movie"
        /\ last.cache_writes = <<last.name>>
        /\ cache_data.processed_files[last.name].classification = last.label

\* the collaborator answered JAV with a confidence exactly at the threshold
AIOverrideWitness ==
    /\ last.op = "classify" /\ last.ai_called /\ last.resp_kind = "ok"
    /\ Yielded.confidence = confidence_threshold
    /\ last.label = "JAV" /\ Yielded.classification = "JAV"

\* what one execution of classify_folder(n) from the current state gives when
\* the collaborator, if called, answers resp: the returned label and the
\* resulting classification-cache entry of n
Outcome(n, resp) ==
    LET r == classify_folder(cache_data, learning_data, manual_corrections,
                             openai_client, now, n, resp)
    IN [label |-> r.label, entry |-> r.cache_data.processed_files[n]]

\* the call for n from the current state reaches the AI escalation
Escalates(n) ==
    /\ ~Truthy(get_cached_classification(cache_data, n))
    /\ traditional_stage(n) = "Movie"
    /\ should_use_ai(cache_data, manual_corrections, openai_client, n)

\* the escalation for n has a stored result to return, or no credential to
\* call the collaborator with
\* the outcomes of the executions of classify_folder(n) from the current state,
\* over everything the collaborator can answer
Outcomes(n) == {Outcome(n, resp) : resp \in AIResponses}

AnswerNotNeeded(n) ==
    \/ ~openai_client
    \/ n \in DOMAIN cache_data.ai_classifications
    \/ n \in DOMAIN learning_data.confidence_scores

\* C20 as stated: for any name, any two executions of classify_folder started
\* from the same classification-cache contents and the same correction and
\* learning-pattern state return the same label and leave the same
\* classification-cache entry.
ClassifyDeterministic ==
    \A n \in Names : Cardinality(Outcomes(n)) = 1

\* C20: for any name, two executions of classify_folder started from the same
\* cache contents, correction and learning state and credential return the
\* same label and leave the same classification-cache entry, unless the call
\* reaches the AI escalation with a credential and no stored AI result for the
\* name, where label and entry follow the collaborator's answer.
ClassifyDeterministicOffline ==
    \A n \in Names :
        (~Escalates(n) \/ AnswerNotNeeded(n)) => Cardinality(Outcomes(n)) = 1

\* a call has reached the AI escalation and returned without calling the
\* collaborator
ClassifyDeterministicWitness ==
    /\ last.op = "classify"
    /\ "ai" \in {last.stages[i] : i \in 1..Len(last.stages)}
    /\ ~last.ai_called

\* C22: a call of classify_folder writes an AI result exactly when it invoked
\* the AI collaborator: none when the result came from the AI-result cache,
\* none when no credential is configured and a fallback value was returned.
AIResultIffInvoked ==
    last.op = "classify" => (last.ai_writes # <<>> <=> last.ai_called)

\* the entries of every name but n are the same before and after the step
OtherEntriesKept(n) ==
    \A m \in Names \ {n} :
        /\ m \in DOMAIN cache_data'.processed_files <=> m \in DOMAIN cache_data.processed_files
        /\ m \in DOMAIN cache_data.processed_files =>
               cache_data'.processed_files[m] = cache_data.processed_files[m]

\* C23 as stated: every call of classify_folder, whatever branch it returns
\* from, writes exactly one cache entry, for the classified name, and leaves
\* the entries of all other names alone.
OneEntryEveryBranch ==
    [][last'.op = "classify" =>
          /\ last'.cache_writes = <<last'.name>>
          /\ last'.name \in DOMAIN cache_data'.processed_files
          /\ OtherEntriesKept(last'.name)]_vars

\* C23: a call of classify_folder that returns from the cache writes no cache
\* entry; every other call writes exactly one, for the classified name; in
\* both cases the name has its one entry afterwards and the entries of all
\* other names are left alone.
OneEntryPerCall ==
    [][last'.op = "classify" =>
          /\ last'.cache_writes = IF last'.had_truthy THEN <<>> ELSE <<last'.name>>
          /\ last'.name \in DOMAIN cache_data'.processed_files
          /\ OtherEntriesKept(last'.name)]_vars

\* a call has written the entry of its name while the cache held another name
OneEntryPerCallWitness ==
    /\ last.op = "classify" /\ last.cache_writes = <<last.name>>
    /\ DOMAIN cache_data.processed_files \ {last.name} # {}

\* C35: every group of the grouping output holds at least one FileEntry, and
\* a group is there only for a torrent one of whose records was accepted.
NoEmptyGroup ==
    \A i \in 1..Len(torrent_groups) :
        /\ Len(torrent_groups[i].files) >= 1
        /\ \E j \in 1..Len(unrestricted_data) :
              /\ unrestricted_data[j].torrent_id = torrent_groups[i].torrent_info.id
              /\ FileEntry(unrestricted_data[j]) = torrent_groups[i].files[1]

\* a grouping call left a torrent without a group: every record of T2 was
\* filtered out, while another torrent got its group
NoEmptyGroupWitness ==
    /\ group_call.fn = "_create_torrent_groups_with_skip"
    /\ torrent_groups # <<>>
    /\ \E k \in 1..Len(torrents) : torrents[k].id = "T2"
    /\ \E j \in 1..Len(unrestricted_data) :
          /\ unrestricted_data[j].torrent_id = "T2"
          /\ Truthy(unrestricted_data[j].link)
          /\ unrestricted_data[j].filesize < min_video_size_mb
    /\ \A i \in 1..Len(torrent_groups) : torrent_groups[i].torrent_info.id # "T2"

\* the ids of the torrent index
IndexedIds == {torrents[k].id : k \in 1..Len(torrents)} \ {None}

\* a link record that may contribute a FileEntry under the last call
Admissible(r) ==
    /\ r.torrent_id # None /\ r.torrent_id \in IndexedIds
    /\ r.link # None
    /\ (group_call.skip_existing => r.link \notin group_call.existing_urls)
    /\ r.filename \in {"ep1.mkv", "ep1.srt"}
    /\ r.filename = "ep1.mkv" => r.filesize >= min_video_size_mb

\* C36: every FileEntry of the grouping output comes from a link record whose
\* torrent id is in the torrent index, whose link is non-empty and, with
\* skipping enabled, not excluded, and which passes the content filter: a
\* video or subtitle extension and, for a video, a size of at least the
\* minimum, the minimum itself included.
EntriesAdmissible ==
    \A i \in 1..Len(torrent_groups) : \A k \in 1..Len(torrent_groups[i].files) :
        \E j \in 1..Len(unrestricted_data) :
            /\ FileEntry(unrestricted_data[j]) = torrent_groups[i].files[k]
            /\ Admissible(unrestricted_data[j])

\* a call with skipping enabled kept a video of exactly the minimum size and
\* dropped another record
EntriesAdmissibleWitness ==
    /\ group_call.fn = "_create_torrent_groups_with_skip"
    /\ group_call.skip_existing /\ group_call.existing_urls # {}
    /\ Len(unrestricted_data) = 2
    /\ Len(torrent_groups) = 1 /\ Len(torrent_groups[1].files) = 1
    /\ torrent_groups[1].files[1].original_filename = "ep1.mkv"
    /\ torrent_groups[1].files[1].filesize = min_video_size_mb

\* C38: sanitizing a sanitized name changes nothing, so once the groups are
\* materialized the folder of every group is its group key, and no two groups
\* share a folder.
FolderIsGroupKey ==
    group_call.materialized =>
        /\ \A i \in 1..Len(torrent_groups) :
              sanitize_folder_name(sanitize_folder_name(torrent_groups[i].torrent_info.filename))
                  = sanitize_folder_name(torrent_groups[i].torrent_info.filename)
        /\ \A i \in 1..Len(torrent_groups) :
              group_call.folders[i] = torrent_groups[i].folder_name
        /\ \A i, j \in 1..Len(torrent_groups) :
              i # j => group_call.folders[i] # group_call.folders[j]

\* a source file whose key of an earlier modification time is in the ledger
\* and whose present key is not
ChangedSinceLedger(p) ==
    /\ p \in SourceFiles(files)
    /\ <<p, files[p].mtime>> \notin track_file
    /\ \E m \in 1..(files[p].mtime - 1) : <<p, m>> \in track_file

\* the content of p differs from the file at dst, or there is none
DiffersFromDest(p, dst) ==
    dst \notin DOMAIN files \/ files[dst].content # files[p].content

\* C37: in a run that lists the folder of a source file changed since the
\* ledger recorded it, the file is not skipped: the copy is attempted, and
\* when its content differs from the destination file the destination gets
\* the new content and the new key is in the ledger.
ReprocessOnChange ==
    [][(\E t \in Runners : pc[t] = "body" /\ pc'[t] = "finally") =>
          \A p \in DOMAIN files :
              (ChangedSinceLedger(p) /\ p[2] \in run_log'.listed) =>
                  /\ \E c \in run_log'.calls :
                        c.key = <<p, files[p].mtime>> /\ ~c.tracked
                  /\ DiffersFromDest(p, jav_dest(p[2])) =>
                        /\ jav_dest(p[2]) \in DOMAIN files'
                        /\ files'[jav_dest(p[2])].content = files[p].content
                        /\ <<p, files[p].mtime>> \in track_file']_vars

\* the learning-pattern lists compared: none, or the pattern of one correction
PatternLists ==
    {<<>>} \cup {<<_extract_learning_pattern(n, "Movie", "JAV")>> : n \in CorrNames}

\* the AI is unavailable, or its answer is below the threshold
AIUnavailableOrUnsure(client, resp) ==
    \/ ~client
    \/ resp.kind = "error"
    \/ parse_response(resp).confidence < confidence_threshold

\* C34: for any name, in two states that differ only in the learning-pattern
\* list classify_folder returns the same label whenever the AI is unavailable
\* or its confidence is below the threshold.
PatternsAdvisory ==
    \A n \in Names, L \in PatternLists, resp \in AIResponses :
        AIUnavailableOrUnsure(openai_client, resp) =>
            classify_folder(cache_data, learning_data, manual_corrections,
                            openai_client, now, n, resp).label
            = classify_folder(cache_data, learning_data,
                              [manual_corrections EXCEPT !.learning_patterns = L],
                              openai_client, now, n, resp).label

\* the entries of a store that cleanup_old_cache(days) keeps are exactly those
\* written at the cutoff or later, each as it was
KeptExactly(before, after, cutoff) ==
    /\ DOMAIN after = {n \in DOMAIN before : before[n].timestamp >= cutoff}
    /\ \A n \in DOMAIN after : after[n] = before[n]

\* C33: a cache entry or AI result is removed only by cleanup_old_cache;
\* cleanup_old_cache(days) removes exactly the entries and AI results written
\* before the cutoff and leaves the newer ones, the manual corrections and the
\* learning patterns unchanged; no step removes a manual correction or a
\* learning pattern.  Every step of the specification writes last.op.
Retention ==
    [][/\ last'.op # "cleanup" =>
              /\ DOMAIN cache_data.processed_files \subseteq DOMAIN cache_data'.processed_files
              /\ DOMAIN cache_data.ai_classifications
                     \subseteq DOMAIN cache_data'.ai_classifications
       /\ last'.op = "cleanup" =>
              /\ \E d \in Days :
                    /\ KeptExactly(cache_data.processed_files, cache_data'.processed_files,
                                   now - d)
                    /\ KeptExactly(cache_data.ai_classifications,
                                   cache_data'.ai_classifications, now - d)
              /\ manual_corrections' = manual_corrections
       /\ DOMAIN manual_corrections.corrections \subseteq DOMAIN manual_corrections'.corrections
       /\ Len(manual_corrections.learning_patterns) <= Len(manual_corrections'.learning_patterns)
       /\ SubSeq(manual_corrections'.learning_patterns, 1,
                 Len(manual_corrections.learning_patterns))
              = manual_corrections.learning_patterns]_vars

\* a cleanup removed an older entry and kept a newer one, with a correction
\* on record
RetentionWitness ==
    /\ last.op = "cleanup" /\ last.removed # {}
    /\ cache_data.processed_files # EmptyMap
    /\ manual_corrections.corrections # EmptyMap
    /\ manual_corrections.learning_patterns # <<>>

CanonicalFiles ==
    {"Heat (1995).strm", "Friends S01E01.strm", "Season 01/Friends S01E01.strm"}

\* C31: after a successful metadata correction the destination folder bears
\* the new canonical name, every reference file in it, season subfolders
\* included, bears the new canonical title, the cache entry names the new
\* folder, and the old path no longer exists.
CorrectionRenamesAll ==
    [][\A n \in RenameNames, tmdb_id \in TmdbIds, db \in BOOLEAN, fault \in RenameFaults :
          (ApplyMetadataCorrection(n, tmdb_id, db, fault) /\ last'.exit = "renamed") =>
             LET old == cache_data.processed_files[n].dest_path
                 new == new_dest_path(cache_data.processed_files[n].classification)
             IN /\ path_exists(files', DirOf(new))
                /\ \A p \in InDir(files', DirOf(new)) : p[3] \in CanonicalFiles
                /\ cache_data'.processed_files[n].dest_path = new
                /\ old # new => ~path_exists(files', DirOf(old))]_vars

\* C30: every label returned by classify_folder and every classification
\* stored in a cache entry is one of JAV, Shows, Movie and SKIP, whatever the
\* AI collaborator answers.
LabelDomain ==
    /\ last.op = "classify" => last.label \in Labels
    /\ \A n \in DOMAIN cache_data.processed_files :
          cache_data.processed_files[n].classification \in Labels

CorrectionNeverLost ==
    (last.op = "apply" /\ (last.vanished \/ last.fault # None)) =>
        /\ last.name \in DOMAIN manual_corrections.corrections
        /\ ~manual_corrections.corrections[last.name].applied
        /\ manual_corrections.corrections[last.name].correct_tmdb_id = last.tmdb_id

\* C7: after add_manual_correction(name) the name is among the unapplied
\* corrections with applied = false; after mark_correction_applied(name) it is
\* not; a mark of a name already applied, or of a name with no correction,
\* leaves the correction store as it was.
CorrectionLifecycle ==
    /\ [](last.op = "add" =>
            \E r \in get_unapplied_corrections(manual_corrections) :
                r.folder_name = last.name /\ r.applied = FALSE)
    /\ [](last.op = "mark" =>
            ~\E r \in get_unapplied_corrections(manual_corrections) :
                r.folder_name = last.name)
    /\ [][(last'.op = "mark" /\ last'.prior \in {"absent", "applied"}) =>
            manual_corrections' = manual_corrections]_vars

\* a correction was added, marked applied, and marked again
CorrectionLifecycleWitness ==
    /\ last.op = "mark" /\ last.prior = "applied"
    /\ last.name \in DOMAIN manual_corrections.corrections
    /\ manual_corrections.corrections[last.name].applied

\* C15: the applied flag of a name's correction is false when the name first
\* gets a correction, and from one state to the next it changes value only in
\* a step of mark_correction_applied.
AppliedOnlyByMark ==
    [][\A n \in DOMAIN manual_corrections'.corrections :
          /\ n \notin DOMAIN manual_corrections.corrections =>
                ~manual_corrections'.corrections[n].applied
          /\ (/\ n \in DOMAIN manual_corrections.corrections
              /\ manual_corrections'.corrections[n].applied
                    # manual_corrections.corrections[n].applied) =>
                (last'.op = "mark" /\ last'.name = n)]_vars

----------------------------------------------------------------------------
(* Claims about the run lock *)

InRun(t) == pc[t] \in {"body", "finally"}    \* between the acquire and the release
NoRunActive == \A t \in Threads : ~InRun(t)

\* C1: whatever the interleaving of the startup trigger, the watcher-spawned
\* triggers and the periodic trigger, at most one invocation of organize_media
\* is between its successful acquire of ORGANIZATION_LOCK and its release.
MutualExclusion ==
    \A t1, t2 \in Threads : (InRun(t1) /\ InRun(t2)) => t1 = t2

\* a run is active while a watcher thread and the periodic scanner have both
\* been turned away
MutualExclusionWitness ==
    /\ \E t \in Threads : InRun(t)
    /\ \E w \in Watchers : found_busy[w]
    /\ found_busy["periodic"]

\* C2: a run that acquired the lock has released it when it ends, whether the
\* body completed, returned early because the source directory is missing, or
\* raised; so with no run active the lock is free and a trigger acquires it.
LockReleased ==
    /\ [](NoRunActive => ~ORGANIZATION_LOCK)
    /\ [][\A t \in Threads :
            (pc[t] = "finally" /\ pc'[t] # "finally") => ~ORGANIZATION_LOCK']_vars
    /\ [][\A t \in Threads :
            (NoRunActive /\ pc[t] = "acquire" /\ pc'[t] # "acquire") => pc'[t] = "body"]_vars

\* a run has acquired the lock after a run that ended with an exception
LockReleasedWitness ==
    /\ run_log.exit = "exception"
    /\ \E t \in Threads : pc[t] = "body"

\* C3: a call of organize_media that finds the lock held returns at once: it
\* scans, classifies and copies nothing, its thread is back where it waits for
\* the next trigger, and a run only ever starts from an acquire that found the
\* lock free.
BusyTriggerDropped ==
    /\ [](\A t \in Threads : found_busy[t] => pc[t] = Exit(t))
    /\ [][\A t \in Threads :
            (found_busy'[t] /\ ~found_busy[t]) =>
                UNCHANGED <<cache_data, learning_data, files, track_file, copies,
                            run_log, src_dirs, ORGANIZATION_LOCK, LAST_ORGANIZED_TIME>>]_vars
    /\ [][\A t \in Threads :
            (pc'[t] = "body" /\ pc[t] # "body") =>
                (pc[t] = "acquire" /\ ~ORGANIZATION_LOCK /\ ~found_busy'[t])]_vars

\* the run that turned a watcher thread away has ended and the thread is idle
BusyTriggerDroppedWitness ==
    /\ \E w \in Watchers : found_busy[w] /\ pc[w] = "idle"
    /\ NoRunActive /\ ~ORGANIZATION_LOCK
    /\ run_log.exit # "none"

\* C17: whatever the interleaving of the threads main starts, the startup
\* trigger never finds ORGANIZATION_LOCK held: its one call of organize_media
\* is never dropped because another trigger took the lock first.
StartupNeverDropped ==
    ~found_busy["startup"]

\* C18: a directory-created event that falls inside the debounce window of an
\* earlier one is collapsed into a run that has not begun yet: after every
\* event some watcher-initiated call of organize_media is still to start.
DebounceDefersRun ==
    [][(src_dirs' # src_dirs /\ src_dirs \subseteq src_dirs') =>
           \E w \in Watchers : pc'[w] = "acquire"]_vars

\* on_created starts a thread in this step
Triggered == \E w \in Watchers : pc[w] = "idle" /\ pc'[w] = "acquire"

\* C25: a directory-created event starts a run only if more than
\* debounce_seconds have passed since the last accepted event; the window runs
\* from the last accepted trigger and suppressed events do not move it, so
\* two watcher triggers are more than debounce_seconds apart.
DebounceWindow ==
    [][/\ Triggered => /\ time_time(now) - last_triggered_time > debounce_seconds
                       /\ last_triggered_time' = time_time(now)
       /\ ~Triggered => last_triggered_time' = last_triggered_time]_vars

\* a second event has been accepted after a watcher-started run
DebounceWindowWitness ==
    /\ \E w \in Watchers : pc[w] = "acquire"
    /\ run_log.exit = "normal"

\* C24: with the periodic timer firing and every run terminating, every
\* directory under the source root is eventually classified by some run,
\* whether its creation event was suppressed by the debounce window, accepted
\* and then dropped at the lock, or never delivered.
PeriodicFallback ==
    \A n \in WatchFolders :
        (n \in src_dirs) ~> (n \in DOMAIN cache_data.processed_files)

\* a directory has been classified although no creation event was ever accepted
PeriodicFallbackWitness ==
    /\ last_triggered_time = 0
    /\ \E n \in src_dirs : n \in DOMAIN cache_data.processed_files

----------------------------------------------------------------------------
(* Claims about the ledger *)

\* C6: over any sequence of organize runs, runs ended by an exception included,
\* a source file with a given (path, mtime) key is copied to the destination at
\* most once, and no copy or hash is made for a key that is in the ledger.
CopiedAtMostOnce ==
    /\ \A key \in DOMAIN copies : copies[key] <= 1
    /\ \A c \in run_log.calls : ~c.tracked

\* C26: the persisted stores are written by the organize run alone, so an
\* entry a run persisted is never lost to another writer: a ledger entry whose
\* file still exists with that modification time stays in the ledger.
LedgerEntryKept ==
    [][\A key \in track_file :
          get_file_tracking_key(files', key[1]) = key => key \in track_file']_vars

\* C28: every source file the cleanup deletes has its current (path, mtime)
\* key in the ledger and its content in some destination file when it is
\* deleted, also when several files of one folder were materialized in one run.
CleanupKeepsReferences ==
    \A d \in cleanup.removed : d.tracked /\ d.preserved

\* C21: a run that reaches its end writes the tracking ledger exactly when it
\* newly copied, and marked as processed, at least one file; a run in which
\* every file was skipped does not write it.
LedgerSavedIffCopied ==
    run_log.exit = "normal" => (run_log.saved <=> run_log.marked # {})

----------------------------------------------------------------------------
(* Claims about grouping *)

EntryPositions(groups, l) ==
    {<<i, j>> \in (1..Len(groups)) \X (1..MaxItems) :
        j <= Len(groups[i].files) /\ groups[i].files[j].link = l}

\* C8: the groups built by _create_torrent_groups and
\* _create_torrent_groups_with_skip hold at most one FileEntry per link value;
\* link records that share a link contribute a single FileEntry.
LinkUnique ==
    \A l \in Links : Cardinality(EntryPositions(torrent_groups, l)) <= 1

\* two records of different torrents share the link L1, both pass the filter,
\* and the groups hold an entry for L1
LinkUniqueWitness ==
    /\ group_call.fn # "init"
    /\ Len(unrestricted_data) = 2
    /\ unrestricted_data[1].link = "L1" /\ unrestricted_data[2].link = "L1"
    /\ unrestricted_data[1].torrent_id = "T1" /\ unrestricted_data[2].torrent_id = "T2"
    /\ unrestricted_data[1].filesize = 500 /\ unrestricted_data[2].filesize = 500
    /\ Len(torrents) >= 2
    /\ Cardinality(EntryPositions(torrent_groups, "L1")) = 1

----------------------------------------------------------------------------
(* Claims about the file utilities *)

\* C9: copy_file_if_changed(src, dst) of an existing src: with dst absent it
\* copies and returns true; with dst of equal content it returns false and
\* changes nothing; with dst of other content it overwrites and returns true.
\* Afterwards dst has the content of src, and a second call returns false and
\* changes nothing.
CopyIfChanged ==
    /\ []((fop.op = "copy" /\ fop.src \in DOMAIN fop.before) =>
            LET b == fop.before
                src == fop.src
                dst == fop.dst
            IN /\ dst \notin DOMAIN b =>
                    (fop.result /\ files = Put(b, dst, b[src]))
               /\ (dst \in DOMAIN b /\ b[dst].content = b[src].content) =>
                    (~fop.result /\ files = b)
               /\ (dst \in DOMAIN b /\ b[dst].content # b[src].content) =>
                    (fop.result /\ files = Put(b, dst, b[src]))
               /\ files[dst].content = b[src].content
               /\ copy_file_if_changed(files, src, dst) = [fs |-> files, result |-> FALSE])
    /\ [][(/\ fop.op = "copy" /\ fop.src \in DOMAIN fop.before
           /\ fop'.op = "copy" /\ fop'.src = fop.src /\ fop'.dst = fop.dst) =>
              (~fop'.result /\ files' = files)]_vars

\* a call found the destination present with the content of the source
CopyIfChangedWitness ==
    /\ fop.op = "copy" /\ ~fop.result
    /\ fop.src # fop.dst
    /\ fop.src \in DOMAIN fop.before /\ fop.dst \in DOMAIN fop.before
    /\ files = fop.before

\* C10 as stated, for all paths src and dst: if dst pre-exists, src is removed,
\* dst is unchanged and false is returned; if dst is absent, src no longer
\* exists, dst holds the content src had and true is returned; dst exists
\* afterwards in both cases.
MoveIfAbsentAllPaths ==
    fop.op = "move" =>
        LET b == fop.before
            src == fop.src
            dst == fop.dst
        IN /\ dst \in DOMAIN b =>
                (/\ src \notin DOMAIN files
                 /\ dst \in DOMAIN files /\ files[dst] = b[dst]
                 /\ ~fop.result)
           /\ dst \notin DOMAIN b =>
                (/\ src \notin DOMAIN files
                 /\ src \in DOMAIN b
                 /\ dst \in DOMAIN files /\ files[dst].content = b[src].content
                 /\ fop.result)
           /\ dst \in DOMAIN files

\* C10 amended: the same for distinct paths src and dst where src is an
\* existing file.
MoveIfAbsent ==
    (fop.op = "move" /\ fop.src # fop.dst /\ fop.src \in DOMAIN fop.before) =>
        LET b == fop.before
            src == fop.src
            dst == fop.dst
        IN /\ dst \in DOMAIN b =>
                (/\ src \notin DOMAIN files
                 /\ dst \in DOMAIN files /\ files[dst] = b[dst]
                 /\ ~fop.result)
           /\ dst \notin DOMAIN b =>
                (/\ src \notin DOMAIN files
                 /\ dst \in DOMAIN files /\ files[dst].content = b[src].content
                 /\ fop.result)
           /\ dst \in DOMAIN files

\* a source was moved onto a path that already held a file, and was removed
MoveIfAbsentWitness ==
    /\ fop.op = "move" /\ ~fop.result
    /\ fop.src # fop.dst
    /\ fop.src \in DOMAIN fop.before /\ fop.dst \in DOMAIN fop.before
    /\ fop.src \notin DOMAIN files

----------------------------------------------------------------------------
(* Claims about a whole organize run *)

\* C13: in every run, each folder the scan discovered is listed by its
\* processor, except a folder whose own processing failed: a failure in one
\* folder does not keep the other folders of the run from being processed.
ErrorIsolation ==
    run_log.handed \ run_log.listed \subseteq run_log.failed

\* C27: in every run, each directory under the source root whose
\* classification is not SKIP is on exactly one of the JAV, Shows and Movie
\* work lists, and so goes to exactly one processor.
NoFolderLost ==
    [][((\E t \in Threads : pc[t] = "body" /\ pc'[t] = "finally") /\ run_log'.exit = "normal") =>
          \A n \in src_dirs :
              get_cached_classification(cache_data', n) # "SKIP" =>
                  Cardinality({k \in {"JAV", "Shows", "Movie"} : n \in run_log'.lists[k]}) = 1]_vars

\* the tracking keys of the files directly under source folder n
KeysUnder(n, keys) == {key \in keys : key[1][2] = n}

\* C14: a folder whose cached classification is SKIP is on no processor's list
\* and is listed by none in the last run, no file of it has ever been copied,
\* and no destination a processor would derive from its name exists.
SkipNeverMaterialized ==
    \A n \in RunFolders :
        get_cached_classification(cache_data, n) = "SKIP" =>
            /\ n \notin run_log.handed \cup run_log.listed
            /\ KeysUnder(n, DOMAIN copies) = {}
            /\ KeysUnder(n, {c.key : c \in run_log.calls}) = {}
            /\ jav_dest(n) \notin DOMAIN files
            /\ \A db \in BOOLEAN : movie_dest(n, db) \notin DOMAIN files

\* a run completed over a tree where the spam folder holds a reference file and
\* the movie folder's file was materialized
SkipNeverMaterializedWitness ==
    /\ run_log.exit = "normal"
    /\ get_cached_classification(cache_data, "setup.exe") = "SKIP"
    /\ SrcPath("setup.exe", "a.strm") \in DOMAIN files
    /\ "Heat" \in run_log.listed
    /\ KeysUnder("Heat", DOMAIN copies) # {}

\* utils.count_strm_files 118-125: the .strm files under a set of roots (every
\* regular file of the model is a .strm file)
DestRoots == {"JAV", "Shows", "Movies"}
count_strm_files(fs, roots) == Cardinality({p \in DOMAIN fs : p[1] \in roots})

\* utils.verify_file_counts 127-150: source_count >= dest_count
verify_file_counts(fs) ==
    count_strm_files(fs, {"unorganized"}) >= count_strm_files(fs, DestRoots)

\* C19: starting from an empty destination tree, after any sequence of
\* completed organize runs between which source reference files are only
\* added or modified, whatever the metadata lookups return, the destination
\* roots never hold more reference files than the source root.
CountIntegrity ==
    (NoRunActive \/ \E t \in Threads : pc[t] = "finally") => verify_file_counts(files)

====
